---------------------------- MODULE Spec2Model ----------------------------
(***************************************************************************)
(* Model of the SMS appointment-booking agent (devgear21/sms_agent).       *)
(*                                                                         *)
(*   - validate_extracted_datetime   (src/nodes/groq_processor.py)         *)
(*   - ConversationProcessor.process_message / process_user_message        *)
(*                                     (src/nodes/groq_processor.py)       *)
(*   - ConversationOrchestrator.process_sms and its helpers (src/main.py)  *)
(*                                                                         *)
(*   - LangSmithMonitor.trace_node_execution                               *)
(*                                     (src/tracing/langsmith_monitor.py)  *)
(*                                                                         *)
(* The specifications share the variables below:                           *)
(*   SpecValidate  the date/time validator applied to bounded candidates   *)
(*   SpecExtract   the intent extractor applied to bounded completions     *)
(*   SpecTrace     trace_node_execution applied to bounded snapshots       *)
(*   SpecLive      Spec with the progress the event loop guarantees        *)
(*   SpecTimed     SpecLive with the clock advancing                       *)
(*   SpecContext   Spec started with a session that already holds turns   *)
(*   Spec          the orchestrator: pipeline runs scheduled on the        *)
(*                 asyncio event loop, against the in-memory session_store *)
(***************************************************************************)
EXTENDS Integers, Sequences, FiniteSets, TLC

VARIABLES
    now,            \* datetime.now() of the validation call, in seconds
    candidate,      \* datetime_str handed to validate_extracted_datetime
    validation,     \* dict returned by validate_extracted_datetime
    raw,            \* response.content of the model call, as a token sequence
    llmRaises,      \* whether self.llm.invoke raises
    extracted,      \* outcome of process_user_message
    session_store,  \* main.session_store: session id -> session record
    runs,           \* one record per process_sms task (locals and position)
    loop,           \* the task the event loop is executing (0: none)
    received,       \* number of webhook messages received so far
    span,           \* inputs and outputs handed to trace_node_execution
    node_trace      \* inputs and outputs of the RunTree it builds

vars == <<now, candidate, validation, raw, llmRaises, extracted,
          session_store, runs, loop, received, span, node_trace>>

-----------------------------------------------------------------------------
(***************************************************************************)
(* Tracing.  A string is a sequence of one-character strings, so that      *)
(* str.lower, `in` and slicing are computed as Python computes them.  A    *)
(* snapshot is a dict (a function from key to value) or another value.     *)
(***************************************************************************)

\* Bounds: number of fields of the inputs and of the outputs snapshot
MaxInputFields == 1
MaxOutputFields == 2

UpperLetters ==
    <<"A", "B", "C", "D", "E", "F", "G", "H", "I", "J", "K", "L", "M",
      "N", "O", "P", "Q", "R", "S", "T", "U", "V", "W", "X", "Y", "Z">>

LowerLetters ==
    <<"a", "b", "c", "d", "e", "f", "g", "h", "i", "j", "k", "l", "m",
      "n", "o", "p", "q", "r", "s", "t", "u", "v", "w", "x", "y", "z">>

\* str.lower
Lower(s) ==
    [i \in 1..Len(s) |->
        IF \E j \in 1..Len(UpperLetters) : UpperLetters[j] = s[i]
        THEN LowerLetters[CHOOSE j \in 1..Len(UpperLetters) : UpperLetters[j] = s[i]]
        ELSE s[i]]

\* Python's `sub in s` for strings
In(sub, s) ==
    \E i \in 0..(Len(s) - Len(sub)) : SubSeq(s, i + 1, i + Len(sub)) = sub

K_phoneNumber == <<"p", "h", "o", "n", "e", "N", "u", "m", "b", "e", "r">>
K_phone_number == <<"p", "h", "o", "n", "e", "_", "n", "u", "m", "b", "e", "r">>
K_From == <<"F", "r", "o", "m">>
K_to == <<"t", "o">>
K_sessionId == <<"s", "e", "s", "s", "i", "o", "n", "I", "d">>
K_auth_token == <<"a", "u", "t", "h", "_", "t", "o", "k", "e", "n">>
K_api_key == <<"a", "p", "i", "_", "k", "e", "y">>
K_password == <<"p", "a", "s", "s", "w", "o", "r", "d">>
K_phone == <<"p", "h", "o", "n", "e">>

\* The keys of the snapshots: those of the spans of main.py (phoneNumber,
\* From, sessionId, the 'to' of a sender's result) and those of the list of
\* line 314
TraceKeys ==
    { K_phoneNumber, K_phone_number, K_From, K_to, K_sessionId,
      K_auth_token, K_api_key, K_password }

\* The values: a full phone number, a text shorter than 4 characters and a
\* credential
FullPhone == <<"+", "1", "2", "3", "4", "5", "6", "7", "8", "9", "0", "1">>
ShortPhone == <<"1", "2", "3">>
Credential == <<"s", "k", "-", "1">>

TraceValues == {FullPhone, ShortPhone, Credential}

\* Line 300: f"***-***-{...}"
MaskPrefix == <<"*", "*", "*", "-", "*", "*", "*", "-">>

\* Line 301
MaskAll == MaskPrefix \o <<"*", "*", "*", "*">>

\* Line 321
Redacted == <<"***REDACTED***">>

\* _mask_phone_number
mask_phone_number(phone_number) ==
    IF Len(phone_number) >= 4
    THEN MaskPrefix \o SubSeq(phone_number, Len(phone_number) - 3, Len(phone_number))
    ELSE MaskAll

\* Line 314
sensitive_keys ==
    { K_phone_number, K_phoneNumber, K_auth_token, K_api_key, K_password }

\* Line 317: any(sensitive_key in key.lower() for sensitive_key in ...)
IsSensitive(key) == \E sensitive_key \in sensitive_keys : In(sensitive_key, Lower(key))

NotADict == [kind |-> "None", items |-> <<>>]

Dict(items) == [kind |-> "dict", items |-> items]

\* _clean_sensitive_data
clean_sensitive_data(data) ==
    IF data.kind # "dict"
    THEN data
    ELSE Dict([key \in DOMAIN data.items |->
                 IF IsSensitive(key)
                 THEN IF In(K_phone, Lower(key))
                      THEN mask_phone_number(data.items[key])
                      ELSE Redacted
                 ELSE data.items[key]])

\* No call of trace_node_execution yet
NoSpan == [inputs |-> NotADict, outputs |-> NotADict]

\* trace_node_execution, lines 106-125: the RunTree is built from the cleaned
\* snapshots
trace_node_execution(inputs, outputs) ==
    [inputs |-> clean_sensitive_data(inputs),
     outputs |-> clean_sensitive_data(outputs)]

-----------------------------------------------------------------------------
(***************************************************************************)
(* Time.  A datetime is a number of seconds since midnight of day 0, and   *)
(* day 0 is a Saturday: weekday() is 0 on a Monday, so it is 5 on day 0.   *)
(***************************************************************************)

\* Bounds of the sampled inputs.
MaxCandDay == 190
MaxNowDay == 2

\* Program constants of validate_extracted_datetime.
MaxAdvanceDays == 180
OpenHour == 9
CloseHour == 18
FirstWeekendDay == 5

At(day, hour, minute, second) ==
    day * 86400 + hour * 3600 + minute * 60 + second

HourOf(t) == (t % 86400) \div 3600

WeekdayOf(t) == ((t \div 86400) + 5) % 7

\* The texts a completion can carry in "extracted_datetime": a text in the
\* shape "YYYY-MM-DD HH:MM" with its fields, or a text in no such shape.
HourSamples == {0, 7, 8, 9, 12, 14, 17, 18, 19, 23, 24}
MinuteSamples == {0, 30, 60}

CandidateTexts ==
    [shaped : {TRUE}, day : 0..MaxCandDay, hour : HourSamples, minute : MinuteSamples]
    \cup {[shaped |-> FALSE, day |-> 0, hour |-> 0, minute |-> 0]}

NowSamples ==
    {At(d, 12, m, s) : d \in 0..MaxNowDay, m \in {0, 30}, s \in {0, 30}}

NoTime == -1

\* datetime.strptime(datetime_str, "%Y-%m-%d %H:%M"): the parsed datetime, or
\* NoTime where strptime raises ValueError (text not in the format, hour
\* above 23, minute above 59).
Strptime(text) ==
    IF text.shaped /\ text.hour <= 23 /\ text.minute <= 59
    THEN At(text.day, text.hour, text.minute, 0)
    ELSE NoTime

Invalid(error, fix) ==
    [valid |-> FALSE, error |-> error, suggested_fix |-> fix, normalized_datetime |-> NoTime]

\* Line 297: parsed_dt < now
PastCheck(parsed_dt, current) == parsed_dt < current

\* A validator that tests the weekday before the past (mutant of the order)
validate_weekday_first(text, current) ==
    LET parsed_dt == Strptime(text) IN
    IF parsed_dt = NoTime
    THEN Invalid("Invalid datetime format", "Please provide date and time in a clear format")
    ELSE IF WeekdayOf(parsed_dt) >= FirstWeekendDay
    THEN Invalid("Appointments are only available Monday through Friday",
                 "Please choose a weekday")
    ELSE IF PastCheck(parsed_dt, current)
    THEN Invalid("Cannot book appointments in the past",
                 "Please choose a future date and time")
    ELSE IF parsed_dt > current + MaxAdvanceDays * 86400
    THEN Invalid("Cannot book appointments more than 6 months in advance",
                 "Please choose a date within the next 6 months")
    ELSE IF HourOf(parsed_dt) < OpenHour \/ HourOf(parsed_dt) >= CloseHour
    THEN Invalid("Appointments are only available between 9 AM and 6 PM",
                 "Please choose a time between 9 AM and 6 PM")
    ELSE [valid |-> TRUE, error |-> "", suggested_fix |-> "",
          normalized_datetime |-> parsed_dt]

\* A validator whose weekday rule rejects Sunday only (mutant of line 322)
validate_sunday_only(text, current) ==
    LET parsed_dt == Strptime(text) IN
    IF parsed_dt = NoTime
    THEN Invalid("Invalid datetime format", "Please provide date and time in a clear format")
    ELSE IF PastCheck(parsed_dt, current)
    THEN Invalid("Cannot book appointments in the past",
                 "Please choose a future date and time")
    ELSE IF parsed_dt > current + MaxAdvanceDays * 86400
    THEN Invalid("Cannot book appointments more than 6 months in advance",
                 "Please choose a date within the next 6 months")
    ELSE IF HourOf(parsed_dt) < OpenHour \/ HourOf(parsed_dt) >= CloseHour
    THEN Invalid("Appointments are only available between 9 AM and 6 PM",
                 "Please choose a time between 9 AM and 6 PM")
    ELSE IF WeekdayOf(parsed_dt) > FirstWeekendDay
    THEN Invalid("Appointments are only available Monday through Friday",
                 "Please choose a weekday")
    ELSE [valid |-> TRUE, error |-> "", suggested_fix |-> "",
          normalized_datetime |-> parsed_dt]

\* ConversationProcessor.validate_extracted_datetime
validate_extracted_datetime(text, current) ==
    LET parsed_dt == Strptime(text) IN
    IF parsed_dt = NoTime
    THEN Invalid("Invalid datetime format", "Please provide date and time in a clear format")
    ELSE IF PastCheck(parsed_dt, current)
    THEN Invalid("Cannot book appointments in the past",
                 "Please choose a future date and time")
    ELSE IF parsed_dt > current + MaxAdvanceDays * 86400
    THEN Invalid("Cannot book appointments more than 6 months in advance",
                 "Please choose a date within the next 6 months")
    ELSE IF HourOf(parsed_dt) < OpenHour \/ HourOf(parsed_dt) >= CloseHour
    THEN Invalid("Appointments are only available between 9 AM and 6 PM",
                 "Please choose a time between 9 AM and 6 PM")
    ELSE IF WeekdayOf(parsed_dt) >= FirstWeekendDay
    THEN Invalid("Appointments are only available Monday through Friday",
                 "Please choose a weekday")
    ELSE [valid |-> TRUE, error |-> "", suggested_fix |-> "",
          normalized_datetime |-> parsed_dt]

NoValidation == [valid |-> FALSE, error |-> "not called", suggested_fix |-> "",
                 normalized_datetime |-> NoTime]


-----------------------------------------------------------------------------
(***************************************************************************)
(* The model's completion (response.content) as a sequence of tokens:      *)
(*   "FJ"  the text ```json        "F3"  the text ```                      *)
(*   "NL"  a newline               "SP"  a space                           *)
(*   "LB"  {                       "RB"  }                                 *)
(*   "W"   prose without braces    "V"   a JSON scalar, e.g. 42            *)
(*   a member token: the comma-separated "key": value pairs of one object  *)
(***************************************************************************)

Required == {"extracted_datetime", "response_message", "next_state", "needs_more_info"}

Members ==
    {"M_null", "M_text_go", "M_text_more", "M_number", "M_no_state", "M_no_msg",
     "M_failed", "M_spaced", "M_empty_dt"}

\* The object a member token denotes: the keys present, the JSON type of
\* "extracted_datetime" (null, a text, a number) and the other values.
\* "M_failed" is an object that carries a "success": false member of its own
\* beside the required ones; where the key is absent the field holds TRUE.
\* "M_empty_dt" is an object whose "extracted_datetime" is the empty string.
\* "M_spaced" is an object whose response_message text has two consecutive
\* spaces in it, and "M_single" the same text with one space in their place.
Object(tok) ==
    CASE tok = "M_null" ->
           [keys |-> Required, extracted_datetime |-> "null",
            next_state |-> "collecting_preferences", needs_more_info |-> TRUE,
            success |-> TRUE, response_message |-> "model"]
      [] tok = "M_text_go" ->
           [keys |-> Required, extracted_datetime |-> "text",
            next_state |-> "checking_availability", needs_more_info |-> FALSE,
            success |-> TRUE, response_message |-> "model"]
      [] tok = "M_text_more" ->
           [keys |-> Required, extracted_datetime |-> "text",
            next_state |-> "collecting_preferences", needs_more_info |-> TRUE,
            success |-> TRUE, response_message |-> "model"]
      [] tok = "M_number" ->
           [keys |-> Required, extracted_datetime |-> "number",
            next_state |-> "checking_availability", needs_more_info |-> FALSE,
            success |-> TRUE, response_message |-> "model"]
      [] tok = "M_failed" ->
           [keys |-> Required \cup {"success"}, extracted_datetime |-> "text",
            next_state |-> "checking_availability", needs_more_info |-> FALSE,
            success |-> FALSE, response_message |-> "model"]
      [] tok = "M_empty_dt" ->
           [keys |-> Required, extracted_datetime |-> "empty",
            next_state |-> "checking_availability", needs_more_info |-> FALSE,
            success |-> TRUE, response_message |-> "model"]
      [] tok = "M_spaced" ->
           [keys |-> Required, extracted_datetime |-> "null",
            next_state |-> "collecting_preferences", needs_more_info |-> TRUE,
            success |-> TRUE, response_message |-> "two  spaces"]
      [] tok = "M_single" ->
           [keys |-> Required, extracted_datetime |-> "null",
            next_state |-> "collecting_preferences", needs_more_info |-> TRUE,
            success |-> TRUE, response_message |-> "two spaces"]
      [] tok = "M_no_state" ->
           [keys |-> Required \ {"next_state"}, extracted_datetime |-> "null",
            next_state |-> "", needs_more_info |-> TRUE,
            success |-> TRUE, response_message |-> "model"]
      [] tok = "M_no_msg" ->
           [keys |-> Required \ {"response_message"}, extracted_datetime |-> "null",
            next_state |-> "collecting_preferences", needs_more_info |-> TRUE,
            success |-> TRUE, response_message |-> "model"]
      [] OTHER ->
           [keys |-> {}, extracted_datetime |-> "null",
            next_state |-> "", needs_more_info |-> TRUE,
            success |-> TRUE, response_message |-> "model"]

Tokens == {"FJ", "F3", "NL", "SP", "LB", "RB", "W", "V"} \cup Members

IsWs(tok) == tok \in {"NL", "SP"}

RECURSIVE LStrip(_)
LStrip(s) == IF s # <<>> /\ IsWs(Head(s)) THEN LStrip(Tail(s)) ELSE s

RECURSIVE RStrip(_)
RStrip(s) ==
    IF s # <<>> /\ IsWs(s[Len(s)]) THEN RStrip(SubSeq(s, 1, Len(s) - 1)) ELSE s

\* str.strip()
Strip(s) == RStrip(LStrip(s))

\* re.sub(r'\s+', ' ', ...) within the text of one token: the pattern is
\* applied to the whole completion, the contents of its strings included
CollapseInside(tok) == IF tok = "M_spaced" THEN "M_single" ELSE tok

\* The re.sub chain of process_message (lines 144-152), and the two re.sub
\* calls of the backup path (lines 205-206): every run of whitespace, between
\* tokens or inside one, becomes one space.
RECURSIVE CollapseWs(_)
CollapseWs(s) ==
    IF s = <<>> THEN <<>>
    ELSE IF IsWs(Head(s))
         THEN <<"SP">> \o CollapseWs(LStrip(s))
         ELSE <<CollapseInside(Head(s))>> \o CollapseWs(Tail(s))

\* json.loads: whitespace between tokens is insignificant; the text must be
\* one JSON value.  kind "error" is json.JSONDecodeError.
JsonLoads(s) ==
    LET body == SelectSeq(s, LAMBDA t : ~IsWs(t)) IN
    IF Len(body) = 3 /\ body[1] = "LB" /\ body[3] = "RB"
       /\ body[2] \in Members \cup {CollapseInside(m) : m \in Members}
    THEN [kind |-> "object", member |-> body[2]]
    ELSE IF Len(body) = 2 /\ body[1] = "LB" /\ body[2] = "RB"
    THEN [kind |-> "object", member |-> "M_empty"]
    ELSE IF Len(body) = 1 /\ body[1] = "V"
    THEN [kind |-> "scalar", member |-> ""]
    ELSE [kind |-> "error", member |-> ""]

\* str.find / str.rfind, 1-based; 0 stands for -1
Find(s, tok) ==
    IF \E i \in 1..Len(s) : s[i] = tok
    THEN CHOOSE i \in 1..Len(s) : s[i] = tok /\ \A j \in 1..(i - 1) : s[j] # tok
    ELSE 0

RFind(s, tok) ==
    IF \E i \in 1..Len(s) : s[i] = tok
    THEN CHOOSE i \in 1..Len(s) : s[i] = tok /\ \A j \in (i + 1)..Len(s) : s[j] # tok
    ELSE 0

\* The field check on the parsed object (mutant: no field is looked for)
HasRequiredFieldsUnchecked(tok) == TRUE

\* Lines 163-172 and 211-215: every required field is in parsed_response
HasRequiredFields(tok) == Required \subseteq Object(tok).keys

\* What process_message returns: a dict, or None.
NoneValue ==
    [kind |-> "None", keys |-> {}, extracted_datetime |-> "null",
     response_message |-> "", next_state |-> "", needs_more_info |-> FALSE,
     fallback |-> FALSE, confidence |-> "", validation_error |-> "",
     success |-> TRUE]

\* The fallback response (mutant: the dict is built without its fallback
\* key and with the confidence of a parsed response)
fallback_response_unflagged(fallback_message) ==
    [kind |-> "dict", keys |-> Required \cup {"confidence"},
     extracted_datetime |-> "null",
     response_message |-> fallback_message, next_state |-> "collecting_preferences",
     needs_more_info |-> TRUE, fallback |-> FALSE, confidence |-> "model",
     validation_error |-> "", success |-> TRUE]

\* ConversationProcessor._create_fallback_response
create_fallback_response(fallback_message) ==
    [kind |-> "dict", keys |-> Required \cup {"confidence", "fallback"},
     extracted_datetime |-> "null",
     response_message |-> fallback_message, next_state |-> "collecting_preferences",
     needs_more_info |-> TRUE, fallback |-> TRUE, confidence |-> "0.0",
     validation_error |-> "", success |-> TRUE]

\* The parsed object returned as the result (line 185)
ParsedResponse(tok) ==
    [kind |-> "dict", keys |-> Object(tok).keys,
     extracted_datetime |-> Object(tok).extracted_datetime,
     response_message |-> Object(tok).response_message,
     next_state |-> Object(tok).next_state,
     needs_more_info |-> Object(tok).needs_more_info, fallback |-> FALSE,
     confidence |-> "model", validation_error |-> "",
     success |-> Object(tok).success]

\* Lines 231-241: the generic reply, or the "response_message" text found in
\* the completion by re.search.
FallbackMessage(response_content) ==
    IF \E i \in 1..Len(response_content) :
          "response_message" \in Object(response_content[i]).keys
    THEN "scavenged"
    ELSE "generic"

\* Lines 212-220: after a successful backup parse no return statement follows,
\* so control leaves the except block and process_message returns None.
BackupParsed(tok) == NoneValue

\* Lines 187-244: the handler of json.JSONDecodeError
BackupParse(response_content) ==
    LET start_idx == Find(response_content, "LB")
        end_idx == RFind(response_content, "RB")
    IN IF start_idx # 0 /\ end_idx # 0 /\ end_idx > start_idx
       THEN LET json_part == CollapseWs(SubSeq(response_content, start_idx, end_idx))
                parsed == JsonLoads(json_part)
            IN IF parsed.kind = "object" /\ HasRequiredFields(parsed.member)
               THEN BackupParsed(parsed.member)
               ELSE create_fallback_response(FallbackMessage(response_content))
       ELSE create_fallback_response(FallbackMessage(response_content))

\* Lines 131-152: strip, drop a leading ```json and a trailing ```, strip,
\* normalise whitespace
Clean(response_content) ==
    LET c0 == Strip(response_content)
        c1 == IF c0 # <<>> /\ Head(c0) = "FJ" THEN Tail(c0) ELSE c0
        c2 == IF c1 # <<>> /\ c1[Len(c1)] = "F3" THEN SubSeq(c1, 1, Len(c1) - 1) ELSE c1
    IN CollapseWs(Strip(c2))

\* process_message from the model call on (lines 120-253): self.llm.invoke,
\* the parse of response.content and its handlers
InvokeAndParse(completion, invokeRaises) ==
    IF invokeRaises
    THEN create_fallback_response("technical")
    ELSE LET response_content == Strip(completion)
             parsed == JsonLoads(Clean(response_content))
         IN CASE parsed.kind = "error" -> BackupParse(response_content)
              [] parsed.kind = "scalar" -> create_fallback_response("technical")
              [] OTHER ->
                   IF HasRequiredFields(parsed.member)
                   THEN ParsedResponse(parsed.member)
                   ELSE create_fallback_response("technical")

\* The parse attempts process_message makes once the model has answered, in
\* order: the parse of the cleaned text (fence strip and whitespace
\* normalisation together, line 160), the backup parse of the text between
\* the braces (lines 196-224, entered on json.JSONDecodeError only), and
\* the fallback response; a ValueError or TypeError of the field check
\* leaves the inner try for `except Exception` (line 246).
ParseAttempts(completion, invokeRaises) ==
    IF invokeRaises
    THEN <<"fallback">>
    ELSE LET response_content == Strip(completion)
             parsed == JsonLoads(Clean(response_content))
         IN CASE parsed.kind = "error" ->
                   IF BackupParse(response_content).kind = "None"
                   THEN <<"cleaned_parse", "boundary_extraction">>
                   ELSE <<"cleaned_parse", "boundary_extraction", "fallback">>
              [] parsed.kind = "scalar" -> <<"cleaned_parse", "fallback">>
              [] OTHER ->
                   IF HasRequiredFields(parsed.member)
                   THEN <<"cleaned_parse">>
                   ELSE <<"cleaned_parse", "fallback">>

\* The replacement fields str.format finds in the text get_system_prompt
\* returns, in order (mutant: the braces of the JSON template are doubled, so
\* the only field is current_datetime)
PromptFieldsEscaped == <<"current_datetime">>

\* Lines 38-76: the braces of the JSON template (lines 48-59) and of the
\* examples are single, so the text from the brace of line 48 up to the first
\* colon, a newline and "extracted_datetime" in quotes, is read as the name of
\* a replacement field; {current_datetime} follows at line 75.
PromptFields == <<"extracted_datetime in quotes", "current_datetime">>

\* Line 108: the keyword arguments of .format
FormatKeywords == {"current_datetime"}

\* str.format raises KeyError at the first field that names no argument
FormatRaises == \E i \in 1..Len(PromptFields) : PromptFields[i] \notin FormatKeywords

\* The parse attempts of a call of process_message: none when .format has
\* raised ahead of the model call
StrategiesTried(completion, invokeRaises) ==
    IF FormatRaises THEN <<"fallback">> ELSE ParseAttempts(completion, invokeRaises)

\* ConversationProcessor.process_message: the prompt is formatted inside the
\* try block (line 108), ahead of the model call; the KeyError it raises is
\* caught by `except Exception` (line 246), which returns the fallback
\* response.
process_message(completion, invokeRaises) ==
    IF FormatRaises
    THEN create_fallback_response("technical")
    ELSE InvokeAndParse(completion, invokeRaises)

\* The truth value Python gives an extracted_datetime: None and the empty
\* string are falsy
Truthy(extracted_datetime) == extracted_datetime \notin {"null", "empty"}

Raised(exc) == [raised |-> TRUE, exc |-> exc, result |-> NoneValue]

Returned(result) == [raised |-> FALSE, exc |-> "", result |-> result]

\* The validation step of process_user_message (mutant: an invalid datetime
\* only replaces the reply; lines 381-383 are left out)
ValidateResultUncleared(result, text, current) ==
    IF result.kind = "None" THEN Raised("AttributeError")
    ELSE IF ~Truthy(result.extracted_datetime) THEN Returned(result)
    ELSE IF result.extracted_datetime = "number" THEN Raised("TypeError")
    ELSE LET v == validate_extracted_datetime(text, current) IN
         IF v.valid THEN Returned(result)
         ELSE Returned([result EXCEPT !.response_message = "validation",
                                      !.validation_error = v.error])

\* process_user_message, lines 374-386: validation of a truthy
\* extracted_datetime.  result.get on None raises AttributeError; strptime on
\* a value that is no str raises TypeError, which validate_extracted_datetime
\* does not catch.
ValidateResult(result, text, current) ==
    IF result.kind = "None" THEN Raised("AttributeError")
    ELSE IF ~Truthy(result.extracted_datetime) THEN Returned(result)
    ELSE IF result.extracted_datetime = "number" THEN Raised("TypeError")
    ELSE LET v == validate_extracted_datetime(text, current) IN
         IF v.valid THEN Returned(result)
         ELSE Returned([result EXCEPT !.response_message = "validation",
                                      !.extracted_datetime = "null",
                                      !.needs_more_info = TRUE,
                                      !.next_state = "collecting_preferences",
                                      !.validation_error = v.error])

\* process_user_message
process_user_message(completion, invokeRaises, text, current) ==
    ValidateResult(process_message(completion, invokeRaises), text, current)

NotExtracted == [raised |-> FALSE, exc |-> "not called", result |-> NoneValue]


-----------------------------------------------------------------------------
(***************************************************************************)
(* The orchestrator.  session_store is the module-level dict of main.py.   *)
(* Each webhook message schedules one process_sms task; a task is a slot   *)
(* of `runs` holding the locals of the coroutine and its position.         *)
(***************************************************************************)

\* Bounds.
MaxSlots == 2
MaxSessionIds == 2
MaxMessages == 2

\* The most turns a session holds when the orchestrator starts
MaxStored == 4

Slots == 1..MaxSlots

\* The values uuid.uuid4() can return in validate_phone_number: a random
\* draw, so any id, including one already in session_store.
SessionIds == 1..MaxSessionIds

EmptyStore == [s \in {} |-> 0]

\* The record _get_or_create_session stores for an absent id
NewSession ==
    [conversationState |-> "new", steps |-> <<>>, errorCount |-> 0,
     messages |-> <<>>, lastMessage |-> 0, lastActivity |-> NoTime]

\* The senders of the webhook messages (webhook_data.From): a number
\* phonenumbers accepts and a text it cannot parse
Phones == {"+12345678901", "invalid-number"}

\* phonenumbers.is_valid_number on the parsed sender (phone_validator.py,
\* lines 53-60): a function of the sender alone
IsValidNumber(raw_phone) == raw_phone = "+12345678901"

\* No datetime text
NoRequest == [shaped |-> FALSE, day |-> 0, hour |-> 0, minute |-> 0]

IdleRun ==
    [pc |-> "idle", msg |-> 0, From |-> "", ack |-> "", sid |-> 0,
     store0 |-> EmptyStore,
     welcome_result |-> NoneValue,
     context |-> <<>>, groq |-> NoneValue, requested |-> NoRequest, avail |-> "", booked |-> FALSE,
     calls |-> <<>>, sent |-> <<>>, spans |-> <<>>, failures |-> 0,
     status |-> "", message |-> "", escaped |-> FALSE]

\* The completions, datetime texts and clock the orchestrator's model calls
\* draw from.
Completions ==
    { <<"LB", "M_null", "RB">>, <<"LB", "M_text_go", "RB">>,
      <<"LB", "M_text_more", "RB">>, <<"LB", "M_number", "RB">>,
      <<"W", "LB", "M_text_go", "RB">>, <<"W">>, <<"LB", "M_failed", "RB">>,
      <<"LB", "M_empty_dt", "RB">> }

ExtractNow == At(0, 12, 0, 0)

\* The clock readings of the orchestrator: datetime.now() starts at
\* ExtractNow and advances an hour at a time
TickSeconds == At(0, 1, 0, 0)

ClockValues == {ExtractNow, ExtractNow + TickSeconds}

\* Monday 14:00 and Sunday 14:00 of the days after ExtractNow
RunTexts ==
    { [shaped |-> TRUE, day |-> 2, hour |-> 14, minute |-> 0],
      [shaped |-> TRUE, day |-> 1, hour |-> 14, minute |-> 0] }

\* What the call process_user_message(groq_input) of _process_with_groq
\* (line 292) can hand the orchestrator.  main looks the extractor up by its
\* module-level name, which the integration tests replace with results of
\* their own; the orchestrator is therefore run against every outcome the
\* extractor's parsing and validation code has for a completion, and not
\* only the one outcome its prompt formatting leaves reachable.
ExtractorOutcomesFor(text) ==
    { ValidateResult(InvokeAndParse(completion, invokeRaises), text, now) :
        completion \in Completions, invokeRaises \in BOOLEAN }

ExtractorOutcomes == UNION { ExtractorOutcomesFor(text) : text \in RunTexts }

\* The text of the extracted_datetime a result carries, which lines 161-169
\* hand to _check_availability and _create_booking
RequestedDatetime(result, text) ==
    IF result.extracted_datetime = "text" THEN text ELSE NoRequest

\* Whether an awaited coroutine of process_sms suspends the task (mutant:
\* the welcome notification is awaited I/O, so other tasks run meanwhile)
AwaitSuspendsOnWelcome(callee) == callee = "_send_welcome_message"

\* None of the coroutines process_sms awaits contains an await of its own:
\* every collaborator is called synchronously, so `await` never hands the
\* event loop to another task before process_sms returns.
AwaitSuspends(callee) == FALSE

\* The task the loop runs after `r` awaited `callee`
LoopAfter(r, callee) == IF AwaitSuspends(callee) THEN 0 ELSE r

Runnable(r) == loop \in {0, r}

Session(r) == session_store[runs[r].sid]

SetSession(r, rec) == [session_store EXCEPT ![runs[r].sid] = rec]

Return(run, status, message) ==
    [run EXCEPT !.pc = "done", !.status = status, !.message = message]

\* What twilio_webhook has answered when the task it added takes its first
\* step (mutant: the handler awaits process_sms, so the task starts with
\* no response sent)
WebhookResponseAwaited == ""

\* Line 510: PlainTextResponse("OK", status_code=200), returned right after
\* add_task; the background task starts once the response has been sent
WebhookResponse == "OK"

\* twilio_webhook: background_tasks.add_task(orchestrator.process_sms, ...)
\* and the response
Webhook(r) ==
    /\ runs[r].pc = "idle"
    /\ \A q \in 1..(r - 1) : runs[q].pc # "idle"
    /\ received < MaxMessages
    /\ received' = received + 1
    /\ \E From \in Phones :
         runs' = [runs EXCEPT ![r] = [IdleRun EXCEPT !.pc = "scheduled",
                                                     !.msg = received + 1,
                                                     !.From = From,
                                                     !.ack = WebhookResponse]]
    /\ UNCHANGED <<span, node_trace, now, candidate, validation, raw, llmRaises, extracted,
                   session_store, loop>>

\* What a trace_node_execution call of the orchestrator contributes to the
\* run: the node name and the success flag it is given
NodeSpan(node_name, success) == [node |-> node_name, success |-> success]

\* process_sms, step 1: validate_phone_number (lines 93-132).  The session
\* trace is created and the phone_validator span emitted (with success=True)
\* only after the invalid-number branch has returned.
ValidatePhone(r) ==
    /\ runs[r].pc = "scheduled"
    /\ Runnable(r)
    /\ \E sessionId \in SessionIds :
         runs' = [runs EXCEPT ![r] =
                    IF IsValidNumber(runs[r].From)
                    THEN [@ EXCEPT !.pc = "get_session", !.sid = sessionId,
                                   !.store0 = session_store,
                                   !.calls = @ \o <<"validate_phone_number",
                                                    "create_session_trace">>,
                                   !.spans = @ \o <<NodeSpan("phone_validator", TRUE)>>]
                    ELSE [@ EXCEPT !.pc = "phone_error",
                                   !.store0 = session_store,
                                   !.calls = @ \o <<"validate_phone_number">>]]
    /\ loop' = r
    /\ UNCHANGED <<span, node_trace, now, candidate, validation, raw, llmRaises, extracted,
                   session_store, received>>

\* What the invalid-phone branch sends (mutant: nothing is sent)
PhoneErrorSmsNone == <<>>

\* Lines 101-109: one send_error_sms of type phone_validation
PhoneErrorSms == <<"error:phone_validation">>

\* process_sms, lines 101-109: the invalid-phone branch
PhoneError(r) ==
    /\ runs[r].pc = "phone_error"
    /\ Runnable(r)
    /\ \E messageSent \in BOOLEAN :
         runs' = [runs EXCEPT ![r] =
                    Return([@ EXCEPT !.sent = @ \o PhoneErrorSms,
                                     !.calls = @ \o <<"send_error_sms", "log_sms_failure">>,
                                     !.failures = @ + (IF messageSent THEN 0 ELSE 1)],
                           "error", "Invalid phone number")]
    /\ loop' = r
    /\ UNCHANGED <<span, node_trace, now, candidate, validation, raw, llmRaises, extracted,
                   session_store, received>>

\* _get_or_create_session (mutant: the record is stored without the test
\* of line 250, so a present id is given a new record)
get_or_create_session_reset(store, session_id) ==
    [s \in DOMAIN store \cup {session_id} |->
        IF s = session_id THEN NewSession ELSE store[s]]

\* _get_or_create_session
get_or_create_session(store, session_id) ==
    IF session_id \notin DOMAIN store
    THEN [s \in DOMAIN store \cup {session_id} |->
            IF s = session_id THEN NewSession ELSE store[s]]
    ELSE store

\* process_sms, lines 134-140: the record is fetched or created, and
\* lastMessage and lastActivity (datetime.now) are written
GetSession(r) ==
    /\ runs[r].pc = "get_session"
    /\ Runnable(r)
    /\ LET store == get_or_create_session(session_store, runs[r].sid) IN
         /\ session_store' = [store EXCEPT ![runs[r].sid].lastMessage = runs[r].msg,
                                            ![runs[r].sid].lastActivity = now]
         /\ runs' = [runs EXCEPT ![r].pc =
                       IF store[runs[r].sid].conversationState = "new"
                       THEN "welcome" ELSE "groq"]
    /\ loop' = r
    /\ UNCHANGED <<span, node_trace, now, candidate, validation, raw, llmRaises, extracted, received>>

\* _send_welcome_message, awaited at line 141
Welcome(r) ==
    /\ runs[r].pc = "welcome"
    /\ Runnable(r)
    /\ \E messageSent \in BOOLEAN :
         runs' = [runs EXCEPT ![r].pc = "welcomed",
                              ![r].welcome_result = [kind |-> "dict",
                                                     messageSent |-> messageSent],
                              ![r].calls = @ \o <<"send_welcome_sms">>,
                              ![r].sent = @ \o <<"welcome">>,
                              ![r].spans = @ \o <<NodeSpan("send_welcome_sms", messageSent)>>,
                              ![r].failures = @ + (IF messageSent THEN 0 ELSE 1)]
    /\ loop' = LoopAfter(r, "_send_welcome_message")
    /\ UNCHANGED <<span, node_trace, now, candidate, validation, raw, llmRaises, extracted,
                   session_store, received>>

\* The state written after the welcome (mutant: the state advances only
\* when the welcome was delivered)
StateAfterWelcomeSent(welcome_result) ==
    IF welcome_result.messageSent THEN "collecting_preferences" ELSE "new"

\* Line 142: the assignment does not read welcome_result
StateAfterWelcome(welcome_result) == "collecting_preferences"

\* Line 142
Welcomed(r) ==
    /\ runs[r].pc = "welcomed"
    /\ Runnable(r)
    /\ session_store' = SetSession(r, [Session(r) EXCEPT
                             !.conversationState = StateAfterWelcome(runs[r].welcome_result)])
    /\ runs' = [runs EXCEPT ![r].pc = "groq"]
    /\ loop' = r
    /\ UNCHANGED <<span, node_trace, now, candidate, validation, raw, llmRaises, extracted, received>>

\* The 'success' of the dict _process_with_groq returns at line 327 (mutant:
\* the literal True is written after the result is spread)
MergedSuccessForced(groq_result) == TRUE

\* The number of turns line 297 slices off the end of messages
ContextTurns == 3

\* Line 327, {'success': True, **groq_result}: a 'success' key of the
\* extractor's result replaces the literal True before it.
MergedSuccess(groq_result) ==
    IF "success" \in groq_result.keys THEN groq_result.success ELSE TRUE

\* The turns handed to the extractor as context (mutant: the slice takes the
\* first turns of the list, messages[:3])
previous_messages_first(messages) ==
    SubSeq(messages, 1, IF Len(messages) < ContextTurns THEN Len(messages) ELSE ContextTurns)

\* Line 297: session_state.get('messages', [])[-3:]
previous_messages(messages) ==
    SubSeq(messages,
           IF Len(messages) > ContextTurns THEN Len(messages) - ContextTurns + 1 ELSE 1,
           Len(messages))

\* Line 309: the success flag of the groq_processor span
GroqSpanSuccess(groq_result) ==
    groq_result.extracted_datetime # "null" \/ groq_result.needs_more_info

\* _process_with_groq, awaited at line 145: process_user_message on the
\* completion the model returns; on success the turn is appended to messages
\* and 'groq_processing' to steps, on an exception errorCount is incremented.
\* Line 149 sends the run to the fallback when the returned 'success' is
\* falsy.
ProcessWithGroq(r) ==
    /\ runs[r].pc = "groq"
    /\ Runnable(r)
    /\ \E text \in RunTexts : \E out \in ExtractorOutcomesFor(text) :
         IF out.raised
         THEN /\ session_store' = SetSession(r, [Session(r) EXCEPT !.errorCount = @ + 1])
              /\ runs' = [runs EXCEPT ![r].pc = "fallback",
                                      ![r].context = previous_messages(Session(r).messages),
                                      ![r].calls = @ \o <<"process_user_message">>,
                                      ![r].spans = @ \o <<NodeSpan("groq_processor", FALSE)>>,
                                      ![r].failures = @ + 1]
         ELSE /\ session_store' =
                   SetSession(r, [Session(r) EXCEPT
                       !.messages = Append(@, [user |-> runs[r].msg,
                                               assistant |-> out.result.response_message]),
                       !.steps = Append(@, "groq_processing")])
              /\ runs' = [runs EXCEPT ![r].pc = IF MergedSuccess(out.result)
                                               THEN "route" ELSE "fallback",
                                      ![r].context = previous_messages(Session(r).messages),
                                      ![r].calls = @ \o <<"process_user_message">>,
                                      ![r].spans = @ \o <<NodeSpan("groq_processor",
                                                              GroqSpanSuccess(out.result))>>,
                                      ![r].requested = RequestedDatetime(out.result, text),
                                      ![r].groq = out.result]
    /\ loop' = LoopAfter(r, "_process_with_groq")
    /\ UNCHANGED <<span, node_trace, now, candidate, validation, raw, llmRaises, extracted, received>>

\* Lines 149-153: _send_fallback_response, return status 'fallback'
Fallback(r) ==
    /\ runs[r].pc = "fallback"
    /\ Runnable(r)
    /\ \E messageSent \in BOOLEAN :
         runs' = [runs EXCEPT ![r] =
                    Return([@ EXCEPT !.calls = @ \o <<"send_fallback_response">>,
                                     !.sent = @ \o <<"fallback">>,
                                     !.spans = @ \o <<NodeSpan("fallback_handler", messageSent)>>,
                                     !.failures = @ + (IF messageSent THEN 0 ELSE 1)],
                           "fallback", "")]
    /\ loop' = r
    /\ UNCHANGED <<span, node_trace, now, candidate, validation, raw, llmRaises, extracted,
                   session_store, received>>

\* Line 159: extracted_datetime and not needs_more_info
ReadyToCheck(groq_result) ==
    Truthy(groq_result.extracted_datetime) /\ ~groq_result.needs_more_info

\* Lines 155-159 and 213-218
Route(r) ==
    /\ runs[r].pc = "route"
    /\ Runnable(r)
    /\ IF ReadyToCheck(runs[r].groq)
       THEN /\ runs' = [runs EXCEPT ![r].pc = "check"]
            /\ UNCHANGED session_store
       ELSE /\ session_store' = SetSession(r, [Session(r) EXCEPT
                                   !.conversationState = "collecting_preferences"])
            /\ runs' = [runs EXCEPT ![r] = Return(@, "processing", "")]
    /\ loop' = r
    /\ UNCHANGED <<span, node_trace, now, candidate, validation, raw, llmRaises, extracted, received>>

\* The results check_calendly_availability returns: isAvailable true; false
\* with suggestedAlternatives; false with none; false with an error.
AvailabilityResults == {"available", "alternatives", "none", "error"}

\* The test of line 165 (mutant: isAvailable is compared with None, as the
\* span of _check_availability does, so every result counts as available)
IsAvailableNotNone(availability_result) == TRUE

\* Line 165: availability_result.get('isAvailable')
IsAvailable(availability_result) == availability_result = "available"

\* Line 366: the success flag of the calendly_checker span,
\* availability_result.get('isAvailable') is not None; every result of
\* check_calendly_availability carries a boolean isAvailable.
CheckerSpanSuccess(availability_result) == TRUE

\* _check_availability, awaited at line 161
CheckAvailability(r) ==
    /\ runs[r].pc = "check"
    /\ Runnable(r)
    /\ \E availability_result \in AvailabilityResults :
         runs' = [runs EXCEPT ![r].pc = IF IsAvailable(availability_result)
                                        THEN "book" ELSE "send_availability",
                              ![r].avail = availability_result,
                              ![r].calls = @ \o <<"check_calendly_availability">>,
                              ![r].spans = @ \o <<NodeSpan("calendly_checker",
                                                      CheckerSpanSuccess(availability_result))>>,
                              ![r].failures =
                                  @ + (IF availability_result = "error" THEN 1 ELSE 0)]
    /\ loop' = LoopAfter(r, "_check_availability")
    /\ UNCHANGED <<span, node_trace, now, candidate, validation, raw, llmRaises, extracted,
                   session_store, received>>

\* _send_availability_response (lines 426-430): the body is `pass`, so no
\* message is sent whatever the result carries.
AvailabilityResponse(availability_result) == <<>>

\* Lines 207-211 and 218
SendAvailability(r) ==
    /\ runs[r].pc = "send_availability"
    /\ Runnable(r)
    /\ runs' = [runs EXCEPT ![r] =
                  Return([@ EXCEPT !.sent = @ \o AvailabilityResponse(runs[r].avail)],
                         "processing", "")]
    /\ loop' = r
    /\ UNCHANGED <<span, node_trace, now, candidate, validation, raw, llmRaises, extracted,
                   session_store, received>>

\* The test of line 171 (mutant: the branch is taken whatever
\* create_calendly_event reported)
IsBookedAlways(success) == TRUE

\* Line 171: booking_result.get('success')
IsBooked(success) == success

\* Where process_sms goes after _create_booking (mutant: a failed booking
\* is issued again)
NextAfterBookingRetry(success) == IF IsBooked(success) THEN "confirm" ELSE "book"

\* Lines 171-205: the confirmation branch or the booking-error branch
NextAfterBooking(success) == IF IsBooked(success) THEN "confirm" ELSE "booking_error"

\* _create_booking, awaited at line 167
CreateBooking(r) ==
    /\ runs[r].pc = "book"
    /\ Runnable(r)
    /\ \E success \in BOOLEAN :
         runs' = [runs EXCEPT ![r].pc = NextAfterBooking(success),
                              ![r].booked = success,
                              ![r].calls = @ \o <<"create_calendly_event">>,
                              ![r].spans = @ \o <<NodeSpan("calendly_creator", success)>>,
                              ![r].failures = @ + (IF success THEN 0 ELSE 1)]
    /\ loop' = LoopAfter(r, "_create_booking")
    /\ UNCHANGED <<span, node_trace, now, candidate, validation, raw, llmRaises, extracted,
                   session_store, received>>

\* Lines 201-205 and 218: _send_error_and_log of type calendly_booking
BookingError(r) ==
    /\ runs[r].pc = "booking_error"
    /\ Runnable(r)
    /\ \E messageSent \in BOOLEAN :
         runs' = [runs EXCEPT ![r] =
                    Return([@ EXCEPT !.sent = @ \o <<"error:calendly_booking">>,
                                     !.calls = @ \o <<"send_error_sms", "log_sms_failure">>,
                                     !.failures = @ + (IF messageSent THEN 0 ELSE 1)],
                           "processing", "")]
    /\ loop' = r
    /\ UNCHANGED <<span, node_trace, now, candidate, validation, raw, llmRaises, extracted,
                   session_store, received>>

\* _send_confirmation, awaited at line 173
Confirm(r) ==
    /\ runs[r].pc = "confirm"
    /\ Runnable(r)
    /\ \E messageSent \in BOOLEAN :
         runs' = [runs EXCEPT ![r].pc = "complete",
                              ![r].calls = @ \o <<"send_confirmation_sms">>,
                              ![r].sent = @ \o <<"confirmation">>,
                              ![r].spans = @ \o <<NodeSpan("send_confirmation_sms", messageSent)>>,
                              ![r].failures = @ + (IF messageSent THEN 0 ELSE 1)]
    /\ loop' = LoopAfter(r, "_send_confirmation")
    /\ UNCHANGED <<span, node_trace, now, candidate, validation, raw, llmRaises, extracted,
                   session_store, received>>

\* Lines 176-199: mark the session completed, log the metrics, finalize the
\* trace (session_trace.post() submits it and is not guarded: it returns or
\* raises) and return status 'booked'.
Complete(r) ==
    /\ runs[r].pc = "complete"
    /\ Runnable(r)
    /\ session_store' = SetSession(r, [Session(r) EXCEPT !.conversationState = "completed"])
    /\ \E postRaises \in BOOLEAN :
         runs' = [runs EXCEPT ![r] =
                    LET after == [@ EXCEPT !.calls = @ \o <<"log_booking_metrics",
                                                            "finalize_session_trace">>]
                    IN IF postRaises
                       THEN [after EXCEPT !.pc = "handler"]
                       ELSE Return(after, "booked", "")]
    /\ loop' = r
    /\ UNCHANGED <<span, node_trace, now, candidate, validation, raw, llmRaises, extracted, received>>

\* Lines 220-246: the except block.  session_id is bound, so the general
\* error message is sent; the trace is finalized again, outside any try.
Handler(r) ==
    /\ runs[r].pc = "handler"
    /\ Runnable(r)
    /\ \E messageSent \in BOOLEAN, postRaises \in BOOLEAN :
         runs' = [runs EXCEPT ![r] =
                    LET after == [@ EXCEPT !.sent = @ \o <<"error:general">>,
                                           !.calls = @ \o <<"send_error_sms",
                                                            "log_sms_failure",
                                                            "finalize_session_trace">>,
                                           !.failures = @ + (IF messageSent THEN 0 ELSE 1)]
                    IN IF postRaises
                       THEN [after EXCEPT !.pc = "done", !.escaped = TRUE]
                       ELSE Return(after, "error", "Conversation processing error")]
    /\ loop' = r
    /\ UNCHANGED <<span, node_trace, now, candidate, validation, raw, llmRaises, extracted,
                   session_store, received>>

\* The event loop completes the task whose coroutine has returned (or
\* raised) and drops it; only then does it run another task.
Retire(r) ==
    /\ runs[r].pc = "done"
    /\ loop = r
    /\ runs' = [runs EXCEPT ![r] = IdleRun]
    /\ loop' = 0
    /\ UNCHANGED <<span, node_trace, now, candidate, validation, raw, llmRaises, extracted,
                   session_store, received>>

\* Time passes: the next datetime.now() reads an hour later
Tick ==
    /\ now + TickSeconds \in ClockValues
    /\ now' = now + TickSeconds
    /\ UNCHANGED <<span, node_trace, candidate, validation, raw, llmRaises, extracted,
                   session_store, runs, loop, received>>

Init ==
    /\ now = ExtractNow
    /\ candidate = [shaped |-> FALSE, day |-> 0, hour |-> 0, minute |-> 0]
    /\ validation = NoValidation
    /\ raw = <<>>
    /\ llmRaises = FALSE
    /\ extracted = NotExtracted
    /\ session_store = EmptyStore
    /\ runs = [r \in Slots |-> IdleRun]
    /\ loop = 0
    /\ received = 0
    /\ span = NoSpan
    /\ node_trace = NoSpan

Next ==
    \E r \in Slots :
        \/ Webhook(r)
        \/ ValidatePhone(r)
        \/ PhoneError(r)
        \/ GetSession(r)
        \/ Welcome(r)
        \/ Welcomed(r)
        \/ ProcessWithGroq(r)
        \/ Fallback(r)
        \/ Route(r)
        \/ CheckAvailability(r)
        \/ SendAvailability(r)
        \/ CreateBooking(r)
        \/ BookingError(r)
        \/ Confirm(r)
        \/ Complete(r)
        \/ Handler(r)
        \/ Retire(r)

Spec == Init /\ [][Next]_vars

\* The orchestrator started with a session that earlier runs have left in
\* the store, holding one turn short of a full context or MaxStored turns:
\* one turn per message received before the first of this behaviour
\* (numbered 0, -1, ... backwards), each with its 'groq_processing' step.
StoredSession(n) ==
    [conversationState |-> "collecting_preferences",
     steps |-> [i \in 1..n |-> "groq_processing"],
     errorCount |-> 0,
     messages |-> [i \in 1..n |-> [user |-> i - n, assistant |-> "model"]],
     lastMessage |-> 0, lastActivity |-> ExtractNow]

InitContext ==
    /\ now = ExtractNow
    /\ candidate = [shaped |-> FALSE, day |-> 0, hour |-> 0, minute |-> 0]
    /\ validation = NoValidation
    /\ raw = <<>>
    /\ llmRaises = FALSE
    /\ extracted = NotExtracted
    /\ \E n \in {ContextTurns - 1, MaxStored} :
         session_store = [id \in {1} |-> StoredSession(n)]
    /\ runs = [r \in Slots |-> IdleRun]
    /\ loop = 0
    /\ received = 0
    /\ span = NoSpan
    /\ node_trace = NoSpan

SpecContext == InitContext /\ [][Next]_vars

\* The steps of a task that wait for nothing outside the process: the event
\* loop runs them as soon as the task holds the loop.
LocalStep(r) ==
    \/ ValidatePhone(r)
    \/ GetSession(r)
    \/ Welcomed(r)
    \/ Route(r)
    \/ SendAvailability(r)
    \/ Retire(r)

\* The orchestrator with the progress its scheduling guarantees.  The other
\* steps return when a collaborator answers: requests.get and requests.post
\* are called without a timeout (calendly_checker.py lines 145 and 166,
\* calendly_creator.py line 194), as are the Twilio and Groq clients and
\* RunTree.post, and process_sms sets no deadline of its own, so nothing
\* makes such a step happen.
SpecLive == Spec /\ \A r \in Slots : WF_vars(LocalStep(r))

\* The orchestrator over passing time: Spec reads one clock value
\* throughout, SpecTimed lets the clock advance between and during tasks,
\* with the same progress as SpecLive.
NextTimed == Next \/ Tick

SpecTimed ==
    Init /\ [][NextTimed]_vars /\ WF_vars(Tick) /\ \A r \in Slots : WF_vars(LocalStep(r))

-----------------------------------------------------------------------------
(***************************************************************************)
(* SpecValidate: validate_extracted_datetime applied once to a sampled     *)
(* text at a sampled clock reading.                                        *)
(***************************************************************************)

InitValidate ==
    /\ now \in NowSamples
    /\ candidate \in CandidateTexts
    /\ validation = NoValidation
    /\ raw = <<>>
    /\ llmRaises = FALSE
    /\ extracted = NotExtracted
    /\ session_store = EmptyStore
    /\ runs = [r \in Slots |-> IdleRun]
    /\ loop = 0
    /\ received = 0
    /\ span = NoSpan
    /\ node_trace = NoSpan

Validate ==
    /\ validation = NoValidation
    /\ validation' = validate_extracted_datetime(candidate, now)
    /\ UNCHANGED <<span, node_trace, now, candidate, raw, llmRaises, extracted,
                   session_store, runs, loop, received>>

SpecValidate == InitValidate /\ [][Validate]_vars

(***************************************************************************)
(* SpecExtract: process_user_message applied once to a sampled completion. *)
(***************************************************************************)

\* Bound: the longest completion built from arbitrary tokens.
MaxRawLen == 2

RECURSIVE TokenSeqs(_)
TokenSeqs(n) ==
    IF n = 0 THEN {<<>>}
    ELSE LET shorter == TokenSeqs(n - 1) IN
         shorter \cup {Append(s, t) : s \in {x \in shorter : Len(x) = n - 1}, t \in Tokens}

\* Completions of the shapes a model produces: an object, possibly spread
\* over lines, unclosed or reversed, with prose or code fences around it.
Prefixes ==
    { <<>>, <<"W">>, <<"FJ">>, <<"F3">>, <<"FJ", "NL">>, <<"F3", "NL">>,
      <<"W", "NL">>, <<"NL">> }

Cores ==
    UNION { { <<"LB", m, "RB">>, <<"LB", "NL", m, "NL", "RB">>,
              <<"LB", m>>, <<m, "RB">>, <<"RB", m, "LB">> } : m \in Members }

Suffixes == { <<>>, <<"W">>, <<"F3">>, <<"NL", "F3">>, <<"NL">> }

RawSamples ==
    TokenSeqs(MaxRawLen)
    \cup { p \o c \o x : p \in Prefixes, c \in Cores, x \in Suffixes }

ExtractTexts ==
    RunTexts \cup {[shaped |-> FALSE, day |-> 0, hour |-> 0, minute |-> 0]}

InitExtract ==
    /\ now = ExtractNow
    /\ candidate \in ExtractTexts
    /\ validation = NoValidation
    /\ raw \in RawSamples
    /\ llmRaises \in BOOLEAN
    /\ extracted = NotExtracted
    /\ session_store = EmptyStore
    /\ runs = [r \in Slots |-> IdleRun]
    /\ loop = 0
    /\ received = 0
    /\ span = NoSpan
    /\ node_trace = NoSpan

Extract ==
    /\ extracted = NotExtracted
    /\ extracted' = process_user_message(raw, llmRaises, candidate, now)
    /\ UNCHANGED <<span, node_trace, now, candidate, validation, raw, llmRaises,
                   session_store, runs, loop, received>>

SpecExtract == InitExtract /\ [][Extract]_vars

-----------------------------------------------------------------------------
(***************************************************************************)
(* SpecTrace: trace_node_execution applied to every snapshot pair of the   *)
(* bounded sets.                                                           *)
(***************************************************************************)

\* The dicts with at most n fields, and a value that is not a dict (the
\* None a collaborator can return)
Snapshots(n) ==
    { Dict(items) : items \in
        UNION { [keys -> TraceValues] :
                  keys \in {ks \in SUBSET TraceKeys : Cardinality(ks) \in 1..n} } }
    \cup {NotADict}

InitTrace ==
    /\ span \in [inputs : Snapshots(MaxInputFields) \ {NotADict},
                 outputs : Snapshots(MaxOutputFields)]
    /\ node_trace = NoSpan
    /\ now = ExtractNow
    /\ candidate = [shaped |-> FALSE, day |-> 0, hour |-> 0, minute |-> 0]
    /\ validation = NoValidation
    /\ raw = <<>>
    /\ llmRaises = FALSE
    /\ extracted = NotExtracted
    /\ session_store = EmptyStore
    /\ runs = [r \in Slots |-> IdleRun]
    /\ loop = 0
    /\ received = 0

Trace ==
    /\ node_trace = NoSpan
    /\ node_trace' = trace_node_execution(span.inputs, span.outputs)
    /\ UNCHANGED <<span, now, candidate, validation, raw, llmRaises, extracted,
                   session_store, runs, loop, received>>

SpecTrace == InitTrace /\ [][Trace]_vars

-----------------------------------------------------------------------------
(***************************************************************************)
(* Properties of the orchestrator (Spec).                                  *)
(***************************************************************************)

\* The session record a task found when it started: the record of its session
\* id in the store as it was at the task's first step, or the record
\* _get_or_create_session creates for an absent id.
Before(r) ==
    IF runs[r].sid \in DOMAIN runs[r].store0
    THEN runs[r].store0[runs[r].sid]
    ELSE NewSession

\* The task has read or written its session and has not returned
OnSession(r) ==
    runs[r].pc \notin {"idle", "scheduled", "phone_error", "get_session", "done"}

HasSession(r) == OnSession(r) \/ (runs[r].pc = "done" /\ runs[r].sid # 0)

\* What the task itself has appended so far
AppendedMessages(r) ==
    IF runs[r].groq.kind = "dict"
    THEN <<[user |-> runs[r].msg, assistant |-> runs[r].groq.response_message]>>
    ELSE <<>>

AppendedSteps(r) ==
    IF runs[r].groq.kind = "dict" THEN <<"groq_processing">> ELSE <<>>

Range(seq) == {seq[i] : i \in 1..Len(seq)}

Count(seq, x) == Cardinality({i \in 1..Len(seq) : seq[i] = x})

\* C1: two process_sms tasks against the same session id never interleave.
\* No state has two tasks both between their first access to one session and
\* their return; and from a task's first access until it is dropped, the
\* session's messages and steps are what the task found followed by exactly
\* its own appended entries, so after both tasks the lists are one task's
\* entries followed by the other's.
C1_RunsDoNotInterleave ==
    /\ \A r1, r2 \in Slots :
         (r1 # r2 /\ OnSession(r1) /\ OnSession(r2)) => runs[r1].sid # runs[r2].sid
    /\ \A r \in Slots :
         HasSession(r) =>
            /\ Session(r).messages = Before(r).messages \o AppendedMessages(r)
            /\ Session(r).steps = Before(r).steps \o AppendedSteps(r)
            /\ Session(r).lastMessage = runs[r].msg

\* C1 witness: the second task, scheduled while the first was still on the
\* loop, has run against the session of the first and both have appended:
\* the messages are the first task's turn followed by the second's.
C1_Witness ==
    /\ runs[2].pc = "done"
    /\ runs[2].sid \in DOMAIN session_store
    /\ Len(session_store[runs[2].sid].messages) = 2
    /\ session_store[runs[2].sid].messages[1].user = 1
    /\ session_store[runs[2].sid].messages[2].user = 2

\* C2: when validate_phone_number reports isValid false, process_sms leaves
\* session_store as it found it (no record for the message), attempts exactly
\* one error response, of type phone_validation, and returns status 'error'.
C2_InvalidPhoneLeavesNoSession ==
    \A r \in Slots :
        (runs[r].pc = "done" /\ runs[r].sid = 0) =>
           /\ session_store = runs[r].store0
           /\ runs[r].sent = <<"error:phone_validation">>
           /\ Count(runs[r].calls, "send_error_sms") = 1
           /\ runs[r].status = "error"
           /\ runs[r].message = "Invalid phone number"

\* C2 witness: an invalid-phone task has returned while the store holds the
\* session of an earlier message
C2_Witness ==
    \E r \in Slots :
        /\ runs[r].pc = "done"
        /\ runs[r].sid = 0
        /\ runs[r].status = "error"
        /\ session_store # EmptyStore

\* C5: every change of a session's conversationState is a transition of the
\* table: new to collecting_preferences, collecting_preferences to
\* checking_availability, checking_availability to completed,
\* checking_availability to collecting_preferences.
TransitionTable ==
    { <<"new", "collecting_preferences">>,
      <<"collecting_preferences", "checking_availability">>,
      <<"checking_availability", "completed">>,
      <<"checking_availability", "collecting_preferences">> }

C5_TransitionsFollowTable ==
    [][\A s \in DOMAIN session_store :
          (s \in DOMAIN session_store'
             /\ session_store'[s].conversationState # session_store[s].conversationState)
          => <<session_store[s].conversationState,
               session_store'[s].conversationState>> \in TransitionTable]_vars

\* C6: a run in which the availability check reports available and the
\* booking is created attempts the confirmation, ends with the session
\* completed and returns status 'booked', whether or not the confirmation
\* was sent.
C6_BookedRunCompletes ==
    \A r \in Slots :
        (runs[r].pc = "done" /\ runs[r].avail = "available" /\ runs[r].booked) =>
           /\ Count(runs[r].calls, "send_confirmation_sms") = 1
           /\ Session(r).conversationState = "completed"
           /\ ~runs[r].escaped
           /\ runs[r].status = "booked"

C8_AlternativesAreSent ==
    \A r \in Slots :
        (runs[r].pc = "done" /\ runs[r].avail = "alternatives") =>
           "alternatives" \in Range(runs[r].sent)

\* C9: process_sms never propagates an exception: every run ends by
\* returning a status, and an unexpected exception yields status 'error'
\* with the message 'Conversation processing error'.
C9_NoExceptionEscapes ==
    \A r \in Slots :
        runs[r].pc = "done" =>
           /\ ~runs[r].escaped
           /\ runs[r].status \in {"booked", "processing", "fallback", "error"}
           /\ ("error:general" \in Range(runs[r].sent) =>
                 /\ runs[r].status = "error"
                 /\ runs[r].message = "Conversation processing error")

\* C10: errorCount is non-negative and a run raises it by exactly the number
\* of its stage failures (extraction, availability check, booking creation,
\* notification); a run without a failure leaves it unchanged.
C10_ErrorCountCountsFailures ==
    \A r \in Slots :
        (runs[r].pc = "done" /\ runs[r].sid # 0) =>
           /\ Session(r).errorCount >= 0
           /\ Session(r).errorCount = Before(r).errorCount + runs[r].failures

-----------------------------------------------------------------------------
(***************************************************************************)
(* Properties of the extractor (SpecExtract) and the validator             *)
(* (SpecValidate).                                                         *)
(***************************************************************************)

\* C3: process_user_message never raises, whatever the completion (empty,
\* prose, JSON spread over lines, prose around a JSON object) and whether
\* or not the model call fails, and what it returns is a dict holding
\* extracted_datetime, response_message, next_state and needs_more_info.
\* (FormatRaises holds, so the result is the fallback response for every
\* completion; with the prompt's braces doubled the backup path would hand
\* back None and process_user_message would raise AttributeError.)
C3_ExtractorNeverRaises ==
    extracted # NotExtracted =>
       /\ ~extracted.raised
       /\ extracted.result.kind = "dict"
       /\ Required \subseteq extracted.result.keys

\* C3 witness: the extractor has returned for a completion that is prose
\* followed by a complete JSON object
C3_Witness ==
    /\ extracted # NotExtracted
    /\ ~extracted.raised
    /\ ~llmRaises
    /\ raw = <<"W", "LB", "M_null", "RB">>

\* The rules of the reference validator, in their order
RuleOrder == <<"format", "past", "too_far", "hours", "weekday">>

\* Whether a text breaks a rule at a clock reading, each rule on its own.
\* The text denotes a datetime when it has the shape, an hour of 0..23 and a
\* minute of 0..59; days 0 and 1 of every week of the model are the weekend.
Breaks(rule, text, current) ==
    LET denotes == text.shaped /\ text.hour \in 0..23 /\ text.minute \in 0..59
        t == text.day * 86400 + text.hour * 3600 + text.minute * 60
    IN CASE rule = "format" -> ~denotes
         [] rule = "past" -> denotes /\ t < current
         [] rule = "too_far" -> denotes /\ t - current > MaxAdvanceDays * 86400
         [] rule = "hours" -> denotes /\ text.hour \notin OpenHour..(CloseHour - 1)
         [] rule = "weekday" -> denotes /\ text.day % 7 \in {0, 1}

\* The first rule broken, in the order of RuleOrder, or "none"
ReferenceReason(text, current) ==
    IF \A i \in 1..Len(RuleOrder) : ~Breaks(RuleOrder[i], text, current)
    THEN "none"
    ELSE RuleOrder[CHOOSE i \in 1..Len(RuleOrder) :
                      /\ Breaks(RuleOrder[i], text, current)
                      /\ \A j \in 1..(i - 1) : ~Breaks(RuleOrder[j], text, current)]

\* The rule a result of validate_extracted_datetime reports
ReasonOf(result) ==
    IF result.valid THEN "none"
    ELSE CASE result.error = "Invalid datetime format" -> "format"
           [] result.error = "Cannot book appointments in the past" -> "past"
           [] result.error = "Cannot book appointments more than 6 months in advance"
                -> "too_far"
           [] result.error = "Appointments are only available between 9 AM and 6 PM"
                -> "hours"
           [] result.error = "Appointments are only available Monday through Friday"
                -> "weekday"
           [] OTHER -> "unknown"

\* C4: validate_extracted_datetime reports the first rule broken in the
\* order format, past, more than 180 days ahead, hours outside [9,18),
\* weekend; it returns valid, with the parsed datetime as
\* normalized_datetime, exactly when no rule is broken.  A candidate equal
\* to now, equal to now + 180 days, or at hour 9 passes the rule concerned,
\* and a candidate at hour 18 fails the hours rule.
C4_ValidatorMatchesReference ==
    validation # NoValidation =>
       /\ ReasonOf(validation) = ReferenceReason(candidate, now)
       /\ validation.valid <=> ReferenceReason(candidate, now) = "none"
       /\ validation.valid =>
             validation.normalized_datetime =
                At(candidate.day, candidate.hour, candidate.minute, 0)
       /\ ~validation.valid => validation.normalized_datetime = NoTime
       /\ (candidate.shaped /\ candidate.minute <= 59) =>
             /\ At(candidate.day, candidate.hour, candidate.minute, 0) = now
                   => ReasonOf(validation) # "past"
             /\ At(candidate.day, candidate.hour, candidate.minute, 0)
                   = now + MaxAdvanceDays * 86400
                   => ReasonOf(validation) \notin {"past", "too_far"}
             /\ candidate.hour = OpenHour => ReasonOf(validation) # "hours"
             /\ candidate.hour = CloseHour => ~validation.valid

\* C4 witness: a candidate both in the past and on a weekend has been
\* validated and the past is the reason reported
C4_Witness ==
    /\ validation # NoValidation
    /\ Breaks("past", candidate, now)
    /\ Breaks("weekday", candidate, now)
    /\ validation.error = "Cannot book appointments in the past"

-----------------------------------------------------------------------------
(***************************************************************************)
(* Error replies and recoverable failures of the orchestrator (Spec).      *)
(***************************************************************************)

\* The messages sent in reply to a failure: the canned texts of
\* ErrorHandler.get_error_message by error type, and the fallback response
CannedErrors ==
    { "error:phone_validation", "error:groq_processing",
      "error:calendly_availability", "error:calendly_booking",
      "error:general", "fallback" }

ErrorsSent(r) == SelectSeq(runs[r].sent, LAMBDA m : m \in CannedErrors)

\* The except block of process_sms was entered
HandlerEntered(r) ==
    runs[r].pc = "done" /\ runs[r].sid # 0
    /\ (runs[r].escaped \/ runs[r].status = "error")

\* The run called create_calendly_event and it reported no success
BookingFailed(r) ==
    "create_calendly_event" \in Range(runs[r].calls) /\ ~runs[r].booked

\* C11: every stage failure of a run is answered with exactly one canned
\* error message chosen by the type of the failure: phone validation,
\* extraction (the fallback response), availability-check error, booking
\* failure, unexpected exception.
C11_EveryFailureAnswered ==
    \A r \in Slots :
        runs[r].pc = "done" =>
           /\ runs[r].sid = 0 => ErrorsSent(r) = <<"error:phone_validation">>
           /\ runs[r].status = "fallback" => ErrorsSent(r) = <<"fallback">>
           /\ runs[r].avail = "error" => ErrorsSent(r) = <<"error:calendly_availability">>
           /\ (BookingFailed(r) /\ ~HandlerEntered(r))
                 => ErrorsSent(r) = <<"error:calendly_booking">>
           /\ HandlerEntered(r) => Count(ErrorsSent(r), "error:general") = 1

\* The conversationState a run's session has once the welcome step is over
\* (lines 140-142), which is its value ahead of the extraction, of the
\* availability check and of the booking: none of them is preceded by
\* another write of the state.
StateBeforeStages(r) ==
    IF Before(r).conversationState = "new"
    THEN "collecting_preferences"
    ELSE Before(r).conversationState

\* The run ended in a recoverable stage failure
RecoverableFailure(r) ==
    /\ runs[r].pc = "done"
    /\ runs[r].sid # 0
    /\ \/ runs[r].status = "fallback"
       \/ runs[r].avail = "error"
       \/ BookingFailed(r)

\* C12: a run that ends in an extraction failure, an availability-check
\* error or a booking failure leaves conversationState at the value it had
\* before the failing stage, and no session is ever in state failed.
C12_FailureKeepsState ==
    /\ \A r \in Slots :
         RecoverableFailure(r) => Session(r).conversationState = StateBeforeStages(r)
    /\ \A s \in DOMAIN session_store : session_store[s].conversationState # "failed"

\* C12 witness: a run has ended after create_calendly_event reported a
\* failure, on a session the welcome step had moved out of state new
C12_Witness ==
    \E r \in Slots :
        /\ RecoverableFailure(r)
        /\ BookingFailed(r)
        /\ Before(r).conversationState = "new"
        /\ Session(r).conversationState = "collecting_preferences"

-----------------------------------------------------------------------------
(***************************************************************************)
(* Properties of the recovery chain of the extractor (SpecExtract).        *)
(***************************************************************************)

\* The completion as a whole is one JSON value
ParsesWhole(completion) == JsonLoads(completion).kind # "error"

\* The value denoted by the text from the first { to the last } of the
\* completion, whitespace normalised
BoundaryValue(completion) ==
    LET first == Find(completion, "LB")
        last == RFind(completion, "RB")
    IN IF first # 0 /\ last > first
       THEN JsonLoads(CollapseWs(SubSeq(completion, first, last)))
       ELSE [kind |-> "error", member |-> ""]

\* A parsed value is an object holding the four required fields
SchemaComplete(value) ==
    value.kind = "object" /\ Required \subseteq Object(value.member).keys

\* The model call returned a completion and process_user_message was applied
ExtractedFromCompletion == extracted # NotExtracted /\ ~llmRaises

\* C13: when the completion does not parse as a whole but the text from its
\* first { to its last } parses to an object with the four required
\* fields, the extractor returns without raising, the result is not the
\* fallback, and its fields are the object's (shown on objects whose
\* extracted_datetime is null, which no validation rewrites).
C13_BoundaryExtractionReturnsObject ==
    (ExtractedFromCompletion /\ ~ParsesWhole(raw) /\ SchemaComplete(BoundaryValue(raw))) =>
       /\ ~extracted.raised
       /\ ~extracted.result.fallback
       /\ Object(BoundaryValue(raw).member).extracted_datetime = "null" =>
             /\ extracted.result.response_message = "model"
             /\ extracted.result.extracted_datetime = "null"
             /\ extracted.result.next_state = Object(BoundaryValue(raw).member).next_state
             /\ extracted.result.needs_more_info =
                   Object(BoundaryValue(raw).member).needs_more_info

\* The completion holds no { followed, at once or later, by a }
NoBracePair(completion) ==
    ~(Find(completion, "LB") # 0 /\ RFind(completion, "RB") > Find(completion, "LB"))

\* C14: for a completion without a { ... } pair the extractor returns the
\* fallback Intent: fallback true, extracted_datetime null, needs_more_info
\* true, confidence 0.0.
C14_NoBracesGivesFallback ==
    (ExtractedFromCompletion /\ NoBracePair(raw)) =>
       /\ ~extracted.raised
       /\ extracted.result.kind = "dict"
       /\ extracted.result.fallback
       /\ extracted.result.extracted_datetime = "null"
       /\ extracted.result.needs_more_info
       /\ extracted.result.confidence = "0.0"

\* C14 witness: the extractor has returned the fallback for a completion
\* whose only braces are a } ahead of a {
C14_Witness ==
    /\ ExtractedFromCompletion
    /\ raw = <<"RB", "M_null", "LB">>
    /\ extracted.result.fallback

\* A complete object written with a newline between its tokens, inside an
\* opening fence (```json or ```) and a closing ```
Fenced(fence, member) ==
    <<fence, "NL", "LB", "NL", member, "NL", "RB", "NL", "F3">>

\* The same object on one line, without fences
OneLine(member) == <<"LB", member, "RB">>

CompleteMembers == {m \in Members : Required \subseteq Object(m).keys}

\* C15: a fenced completion with newlines between its JSON tokens is parsed
\* to the structured Intent of the same JSON on one line without fences,
\* for a ```json and for a bare ``` opening fence: it is not the fallback,
\* nothing is raised, and the two results are equal.
C15_FencedParsesLikeOneLine ==
    \A fence \in {"FJ", "F3"}, member \in CompleteMembers :
        (ExtractedFromCompletion /\ raw = Fenced(fence, member)
           /\ Object(member).extracted_datetime # "number") =>
           /\ ~extracted.raised
           /\ ~extracted.result.fallback
           /\ extracted = process_user_message(OneLine(member), FALSE, candidate, now)

\* The value the cleaning and parse of lines 131-160 yield for a completion
CleanedValue(completion) == JsonLoads(Clean(Strip(completion)))

\* C16: the extractor returns a non-fallback Intent only for a parsed object
\* holding the four required fields, and a parsed value lacking one of them
\* is never returned as the Intent.  Stated of the result of
\* process_user_message and of the parse stage of process_message taken by
\* itself.
C16_OnlyCompleteObjectsReturned ==
    ExtractedFromCompletion =>
       /\ (~extracted.raised /\ ~extracted.result.fallback) =>
             (SchemaComplete(CleanedValue(raw)) \/ SchemaComplete(BoundaryValue(raw)))
       /\ (CleanedValue(raw).kind # "error" /\ ~SchemaComplete(CleanedValue(raw))) =>
             (~extracted.raised /\ extracted.result.fallback)
       /\ LET parsed == InvokeAndParse(raw, FALSE) IN
             /\ (parsed.kind = "dict" /\ ~parsed.fallback) =>
                   (SchemaComplete(CleanedValue(raw)) /\ Required \subseteq parsed.keys)
             /\ (CleanedValue(raw).kind # "error" /\ ~SchemaComplete(CleanedValue(raw)))
                   => (parsed.kind = "dict" /\ parsed.fallback)

\* C16 witness: the completion is an object without next_state and the
\* extractor has returned the fallback Intent
C16_Witness ==
    /\ ExtractedFromCompletion
    /\ raw = <<"LB", "M_no_state", "RB">>
    /\ ~extracted.raised
    /\ extracted.result.fallback

\* C17: the fallback Intent is returned only after boundary extraction has
\* been tried, the strategies run in their order, and a completion whose
\* parse yields a value lacking a required field still has boundary
\* extraction tried on it before the fallback.
C17_BoundaryTriedBeforeFallback ==
    ExtractedFromCompletion =>
       LET tried == StrategiesTried(raw, llmRaises) IN
       /\ extracted.result.fallback =>
             \E i, j \in 1..Len(tried) :
                 i < j /\ tried[i] = "boundary_extraction" /\ tried[j] = "fallback"
       /\ (CleanedValue(raw).kind # "error" /\ ~SchemaComplete(CleanedValue(raw))) =>
             "boundary_extraction" \in Range(tried)

-----------------------------------------------------------------------------
(***************************************************************************)
(* Validation inside the extraction stage, and sessions (Spec).            *)
(***************************************************************************)

\* The Intent a run received had its datetime rejected by
\* validate_extracted_datetime (line 384 records the error)
DatetimeRejected(r) ==
    runs[r].groq.kind = "dict" /\ runs[r].groq.validation_error # ""

EarlierSessionOfSender(r) ==
    HasSession(r) /\ IsValidNumber(runs[r].From) /\ runs[r].store0 # EmptyStore

\* C19: a later valid message of the same phone number is processed against
\* the session of the earlier one: the run finds that record, not in state
\* new, sends no welcome, appends its turn to the record's messages, and
\* session_store holds one record for the conversation.
C19_SamePhoneSameSession ==
    \A r \in Slots :
        EarlierSessionOfSender(r) =>
           /\ runs[r].sid \in DOMAIN runs[r].store0
           /\ Before(r).conversationState # "new"
           /\ "welcome" \notin Range(runs[r].sent)
           /\ Session(r).messages = Before(r).messages \o AppendedMessages(r)
           /\ Cardinality(DOMAIN session_store) = 1

\* The fields of a session record that _get_or_create_session initialises
\* and the claim speaks of
Kept(rec) ==
    <<rec.conversationState, rec.steps, rec.messages, rec.errorCount>>

\* C20: _get_or_create_session creates, for an absent id, a record in state
\* new with empty steps and messages and errorCount 0, and for a present id
\* returns the existing record unmodified; the store has one record per id,
\* the other records are untouched, and a repeated call resets nothing.
\* Stated of the function on every reachable store, and of the record a
\* run holds right after its call (lines 135-137), before the welcome of
\* lines 140-142 moves a new record on.
C20_GetOrCreateKeepsRecords ==
    /\ \A id \in SessionIds :
         LET once == get_or_create_session(session_store, id)
             twice == get_or_create_session(once, id)
         IN /\ DOMAIN once = DOMAIN session_store \cup {id}
            /\ \A s \in DOMAIN session_store : once[s] = session_store[s]
            /\ id \notin DOMAIN session_store =>
                  Kept(once[id]) = <<"new", <<>>, <<>>, 0>>
            /\ twice = once
    /\ \A r \in Slots :
         (runs[r].pc \in {"welcome", "groq"} /\ "welcome" \notin Range(runs[r].sent)) =>
            /\ DOMAIN session_store = DOMAIN runs[r].store0 \cup {runs[r].sid}
            /\ \A s \in DOMAIN runs[r].store0 :
                  Kept(session_store[s]) = Kept(runs[r].store0[s])
            /\ runs[r].sid \notin DOMAIN runs[r].store0 =>
                  Kept(Session(r)) = <<"new", <<>>, <<>>, 0>>

\* C20 witness: a run has called _get_or_create_session for an id whose
\* record already held a turn, a step and a state other than new
C20_Witness ==
    \E r \in Slots :
        /\ runs[r].pc = "groq"
        /\ runs[r].sid \in DOMAIN runs[r].store0
        /\ Len(Session(r).messages) = 1
        /\ Session(r).steps = <<"groq_processing">>
        /\ Session(r).conversationState = "completed"

-----------------------------------------------------------------------------
(***************************************************************************)
(* Properties of the orchestrator, continued.                              *)
(***************************************************************************)

\* The run found its session in state new (created it, or an earlier run
\* left it so)
FoundNew(r) == HasSession(r) /\ Before(r).conversationState = "new"

\* C21: for a session found in state new the run calls the welcome
\* notification exactly once and, whether the notification was sent or not,
\* sets conversationState to collecting_preferences and goes on to intent
\* extraction; a run that found another state sends no welcome; no run with
\* a valid phone returns with the session in state new.
C21_WelcomeOnceThenCollecting ==
    \A r \in Slots :
        /\ (FoundNew(r) /\ runs[r].pc # "welcome") =>
              /\ Count(runs[r].calls, "send_welcome_sms") = 1
              /\ runs[r].pc # "welcomed" =>
                    Session(r).conversationState # "new"
              /\ runs[r].pc = "groq" =>
                    Session(r).conversationState = "collecting_preferences"
              /\ runs[r].pc = "done" => "process_user_message" \in Range(runs[r].calls)
        /\ (HasSession(r) /\ ~FoundNew(r)) =>
              Count(runs[r].calls, "send_welcome_sms") = 0
        /\ (runs[r].pc = "done" /\ runs[r].sid # 0) =>
              Session(r).conversationState # "new"

\* C21 witness: the welcome of a new session was not delivered and the run
\* is about to call the extractor with the session in collecting_preferences
C21_Witness ==
    \E r \in Slots :
        /\ runs[r].pc = "groq"
        /\ FoundNew(r)
        /\ runs[r].welcome_result.kind = "dict"
        /\ ~runs[r].welcome_result.messageSent
        /\ Session(r).conversationState = "collecting_preferences"

\* The run's availability check reported available and its booking failed
BookingFailedAfterAvailable(r) ==
    runs[r].pc = "done" /\ runs[r].avail = "available" /\ BookingFailed(r)

\* C22: when create_calendly_event reports a failure after an availability
\* check that reported available, the run sends the calendly_booking error
\* message once, neither calls nor sends the confirmation, leaves
\* conversationState as it was before the booking (the failure does not
\* make it completed) and returns.
C22_BookingFailureKeepsState ==
    \A r \in Slots :
        BookingFailedAfterAvailable(r) =>
           /\ ErrorsSent(r) = <<"error:calendly_booking">>
           /\ "confirmation" \notin Range(runs[r].sent)
           /\ "send_confirmation_sms" \notin Range(runs[r].calls)
           /\ Session(r).conversationState = StateBeforeStages(r)
           /\ Before(r).conversationState # "completed" =>
                 Session(r).conversationState # "completed"
           /\ runs[r].status = "processing"
           /\ ~runs[r].escaped

\* C22 witness: a run on a new session has returned after the booking
\* failed, with the booking error sent and the session still collecting
C22_Witness ==
    \E r \in Slots :
        /\ BookingFailedAfterAvailable(r)
        /\ FoundNew(r)
        /\ "error:calendly_booking" \in Range(runs[r].sent)
        /\ Session(r).conversationState = "collecting_preferences"

\* The collaborator calls that are stages of the pipeline
StageCalls ==
    { "validate_phone_number", "send_welcome_sms", "process_user_message",
      "check_calendly_availability", "create_calendly_event",
      "send_confirmation_sms" }

\* The stages a run executed, in execution order
StagesExecuted(r) == SelectSeq(runs[r].calls, LAMBDA c : c \in StageCalls)

\* What the run has added to the steps of its session
StepsAdded(r) ==
    SubSeq(Session(r).steps, Len(Before(r).steps) + 1, Len(Session(r).steps))

\* C23: when a run returns, the steps of its session are the steps it found
\* followed by one entry for every stage the run executed, in execution
\* order; after a booked run the added entries include one for the booking
\* creation (an entry other than the extraction's 'groq_processing').
C23_StepsRecordEveryStage ==
    \A r \in Slots :
        (runs[r].pc = "done" /\ runs[r].sid # 0) =>
           /\ SubSeq(Session(r).steps, 1, Len(Before(r).steps)) = Before(r).steps
           /\ Len(StepsAdded(r)) = Len(StagesExecuted(r))
           /\ runs[r].booked => Range(StepsAdded(r)) # {"groq_processing"}

-----------------------------------------------------------------------------
(***************************************************************************)
(* Properties of the tracing (SpecTrace).                                  *)
(***************************************************************************)

\* The sensitive patterns of field names: phone, token, auth, secret
SensitivePatterns ==
    { K_phone, <<"t", "o", "k", "e", "n">>, <<"a", "u", "t", "h">>,
      <<"s", "e", "c", "r", "e", "t">> }

MatchesPattern(key) == \E pattern \in SensitivePatterns : In(pattern, Lower(key))

\* A snapshot as it must be emitted: under a key matching a pattern, a
\* phone-named field holds the value masked to its last 4 characters (fully
\* masked when shorter than 4) and any other field is redacted.
RedactedAsRequired(snapshot, emitted) ==
    snapshot.kind = "dict" =>
       /\ emitted.kind = "dict"
       /\ DOMAIN emitted.items = DOMAIN snapshot.items
       /\ \A key \in DOMAIN snapshot.items :
            MatchesPattern(key) =>
               IF In(K_phone, Lower(key))
               THEN /\ emitted.items[key] =
                          (IF Len(snapshot.items[key]) >= 4
                           THEN MaskPrefix \o SubSeq(snapshot.items[key],
                                                     Len(snapshot.items[key]) - 3,
                                                     Len(snapshot.items[key]))
                           ELSE MaskAll)
                    /\ emitted.items[key] # FullPhone
               ELSE emitted.items[key] = Redacted

\* C24: the inputs and outputs of every span built by trace_node_execution
\* are redacted: a field whose name matches a sensitive pattern holds a
\* masked phone or the redaction text, so no full phone number is emitted
\* under phoneNumber or phone_number.
C24_SpansAreRedacted ==
    node_trace # NoSpan =>
       /\ RedactedAsRequired(span.inputs, node_trace.inputs)
       /\ RedactedAsRequired(span.outputs, node_trace.outputs)

-----------------------------------------------------------------------------
(***************************************************************************)
(* Properties of the orchestrator, continued.                              *)
(***************************************************************************)

\* The external collaborator operations: model completion, availability
\* check, booking creation, welcome and confirmation notification
CollaboratorCalls ==
    { "process_user_message", "check_calendly_availability",
      "create_calendly_event", "send_welcome_sms", "send_confirmation_sms" }

\* C25: within one run each of the model completion, the availability
\* check, the booking creation, the welcome and the confirmation is called
\* at most once: a call that failed is not issued again.
C25_CollaboratorsCalledAtMostOnce ==
    \A r \in Slots :
        \A call \in CollaboratorCalls : Count(runs[r].calls, call) <= 1

\* C25 witness: a run has returned after a welcome that was not delivered,
\* and a booking that failed, each called once
C25_Witness ==
    \E r \in Slots :
        /\ runs[r].pc = "done"
        /\ BookingFailed(r)
        /\ runs[r].welcome_result.kind = "dict"
        /\ ~runs[r].welcome_result.messageSent
        /\ Count(runs[r].calls, "create_calendly_event") = 1
        /\ Count(runs[r].calls, "send_welcome_sms") = 1

\* C26: every pipeline run terminates, even when a collaborator never
\* answers: a scheduled task eventually returns.
C26_EveryRunTerminates ==
    \A r \in Slots : (runs[r].pc = "scheduled") ~> (runs[r].pc = "done")

-----------------------------------------------------------------------------
(***************************************************************************)
(* Properties of the session store over time (SpecTimed).                  *)
(***************************************************************************)

\* The idle threshold of the eviction: half a clock step
Ttl == At(0, 0, 30, 0)

\* The session's lastActivity precedes now - ttl
Idle(s) == session_store[s].lastActivity < now - Ttl

\* A task is between its first access to the session and its return
Held(s) == \E r \in Slots : OnSession(r) /\ runs[r].sid = s

\* C27: a session leaves the store only by eviction, which removes the
\* sessions whose lastActivity precedes now - ttl, runs whatever the
\* message processing does, and never removes a session a run holds.  A
\* step removes a session only if it is idle and not held (so apart from
\* eviction the set of ids never shrinks), and a session that is idle and
\* not held is eventually removed, unless a new message makes it active.
C27_IdleSessionsAreEvicted ==
    /\ [][\A s \in DOMAIN session_store :
             s \notin DOMAIN session_store' => (Idle(s) /\ ~Held(s))]_vars
    /\ \A s \in SessionIds :
          (s \in DOMAIN session_store /\ Idle(s) /\ ~Held(s))
             ~> (s \notin DOMAIN session_store \/ ~Idle(s))

-----------------------------------------------------------------------------
(***************************************************************************)
(* Properties of the orchestrator, continued (Spec).                       *)
(***************************************************************************)

\* C28: every webhook message schedules exactly one process_sms task and is
\* answered 'OK' without waiting for it: the step that receives a message
\* moves one idle slot to scheduled for that message, answered, and touches
\* no other task; and a task has its answer 'OK' at every step from
\* scheduling to its return, whatever status it returns.
C28_AcknowledgedBeforeRun ==
    /\ [](\A r \in Slots : runs[r].pc # "idle" => runs[r].ack = "OK")
    /\ [][received' # received =>
            /\ received' = received + 1
            /\ \E r \in Slots :
                 /\ runs[r].pc = "idle"
                 /\ runs'[r].pc = "scheduled"
                 /\ runs'[r].msg = received'
                 /\ runs'[r].ack = "OK"
                 /\ \A q \in Slots \ {r} : runs'[q] = runs[q]]_vars
    /\ [][\A r \in Slots :
            (runs[r].pc = "idle" /\ runs'[r].pc # "idle") => received' = received + 1]_vars

\* C28 witness: a task whose message was answered 'OK' has returned status
\* 'error', while the task of a later message, answered too, has not
\* started
C28_Witness ==
    \E r1, r2 \in Slots :
        /\ runs[r1].pc = "done"
        /\ runs[r1].status = "error"
        /\ runs[r1].ack = "OK"
        /\ runs[r2].pc = "scheduled"
        /\ runs[r2].ack = "OK"

-----------------------------------------------------------------------------
(***************************************************************************)
(* The validator on fixed candidates (SpecValidate).                       *)
(***************************************************************************)

\* The candidate is a well-formed text of the given weekday (0 is Monday)
\* and hour, at minute 0, and the validator has been applied to it
ValidatedAt(weekday, hour) ==
    /\ validation # NoValidation
    /\ Strptime(candidate) # NoTime
    /\ WeekdayOf(Strptime(candidate)) = weekday
    /\ candidate.hour = hour
    /\ candidate.minute = 0

\* What the tests of the fixed candidates assert: Thursday 14:00 is valid,
\* Thursday 07:00 and 19:00 get the business-hours error, Saturday and
\* Sunday 14:00 get the Monday-through-Friday error
FixedCandidateResults ==
    /\ ValidatedAt(3, 14) => validation.valid
    /\ (ValidatedAt(3, 7) \/ ValidatedAt(3, 19)) =>
          /\ ~validation.valid
          /\ validation.error = "Appointments are only available between 9 AM and 6 PM"
    /\ (ValidatedAt(5, 14) \/ ValidatedAt(6, 14)) =>
          /\ ~validation.valid
          /\ validation.error = "Appointments are only available Monday through Friday"

InBookingWindow ==
    /\ Strptime(candidate) >= now
    /\ Strptime(candidate) <= now + MaxAdvanceDays * 86400

-----------------------------------------------------------------------------
(***************************************************************************)
(* Properties of the orchestrator, continued (Spec).                       *)
(***************************************************************************)

\* The run received an Intent with no datetime, or one asking for more
\* information, and has returned
NeedsMoreInfo(r) ==
    /\ runs[r].pc = "done"
    /\ runs[r].groq.kind = "dict"
    /\ ~ReadyToCheck(runs[r].groq)

\* The messages of a run that answer the user's text: all it sent but the
\* welcome
Replies(r) == SelectSeq(runs[r].sent, LAMBDA m : m # "welcome")

\* C30: a run whose Intent has no datetime or needs more information sends
\* the Intent's response_message to the user as its reply, and ends with
\* the session in collecting_preferences.
C30_ClarifyingReplyIsSent ==
    \A r \in Slots :
        NeedsMoreInfo(r) =>
           /\ Len(Replies(r)) = 1
           /\ Session(r).conversationState = "collecting_preferences"

\* The run's extraction stage did not succeed: process_user_message raised
\* (no result was kept), or its result carries a 'success' of its own that
\* is False
ExtractionRaised(r) ==
    "process_user_message" \in Range(runs[r].calls) /\ runs[r].groq.kind = "None"

ExtractionUnsuccessful(r) ==
    /\ "process_user_message" \in Range(runs[r].calls)
    /\ runs[r].groq.kind = "dict"
    /\ "success" \in runs[r].groq.keys
    /\ ~runs[r].groq.success

ExtractionFailed(r) == ExtractionRaised(r) \/ ExtractionUnsuccessful(r)

\* C31: when the extraction stage does not succeed (the extractor raises, or
\* its result carries success False), the run goes to the fallback and
\* nowhere else: it has sent exactly one fallback response and returned
\* status 'fallback' once it is done, it calls neither the availability
\* check nor the booking creation, and it leaves conversationState as it was
\* ahead of the extraction, so not changed to completed.
C31_FailedExtractionFallsBack ==
    \A r \in Slots :
        ExtractionFailed(r) =>
           /\ runs[r].pc \in {"fallback", "done"}
           /\ runs[r].pc = "done" =>
                 /\ Count(runs[r].sent, "fallback") = 1
                 /\ Count(runs[r].calls, "send_fallback_response") = 1
                 /\ runs[r].status = "fallback"
                 /\ ~runs[r].escaped
           /\ "check_calendly_availability" \notin Range(runs[r].calls)
           /\ "create_calendly_event" \notin Range(runs[r].calls)
           /\ Session(r).conversationState = StateBeforeStages(r)
           /\ Before(r).conversationState # "completed" =>
                 Session(r).conversationState # "completed"

\* C31 witness: a run whose extractor returned a schedulable datetime
\* together with success False has returned 'fallback' after one fallback
\* response, with the turn appended and no availability check made
C31_Witness ==
    \E r \in Slots :
        /\ ExtractionUnsuccessful(r)
        /\ ReadyToCheck(runs[r].groq)
        /\ runs[r].pc = "done"
        /\ runs[r].status = "fallback"
        /\ Count(runs[r].sent, "fallback") = 1
        /\ Len(Session(r).messages) = Len(Before(r).messages) + 1

\* The run has created the session trace of lines 117-121
CreatedSessionTrace(r) == "create_session_trace" \in Range(runs[r].calls)

\* C32: every run that has created a session trace has finalized it exactly
\* once when it returns, whatever its outcome (booked, processing, fallback
\* or error).
C32_TraceFinalizedOnce ==
    \A r \in Slots :
        (runs[r].pc = "done" /\ CreatedSessionTrace(r)) =>
            Count(runs[r].calls, "finalize_session_trace") = 1

\* The node_name under which the span of a stage is emitted
NodeOf(call) ==
    CASE call = "validate_phone_number" -> "phone_validator"
      [] call = "send_welcome_sms" -> "send_welcome_sms"
      [] call = "process_user_message" -> "groq_processor"
      [] call = "check_calendly_availability" -> "calendly_checker"
      [] call = "create_calendly_event" -> "calendly_creator"
      [] call = "send_confirmation_sms" -> "send_confirmation_sms"

\* The spans a run emitted for a stage
SpansOf(r, call) ==
    SelectSeq(runs[r].spans, LAMBDA s : s.node = NodeOf(call))

\* C33: for every stage a run has executed (phone normalization, welcome
\* notify, extraction, availability check, booking creation, confirmation
\* notify) exactly one span has been emitted, and its success flag is the
\* outcome of the stage: false for a number that failed normalization, for
\* an undelivered welcome, for an extraction that raised, for an
\* availability check that ended in an error and for a failed booking.
C33_OneSpanPerStage ==
    \A r \in Slots :
        \A call \in StageCalls :
            /\ Len(SpansOf(r, call)) = Count(runs[r].calls, call)
            /\ \A i \in 1..Len(SpansOf(r, call)) :
                 SpansOf(r, call)[i].success =
                    CASE call = "validate_phone_number" -> IsValidNumber(runs[r].From)
                      [] call = "send_welcome_sms" -> runs[r].welcome_result.messageSent
                      [] call = "process_user_message" -> ~ExtractionRaised(r)
                      [] call = "check_calendly_availability" -> runs[r].avail # "error"
                      [] call = "create_calendly_event" -> runs[r].booked
                      [] OTHER -> SpansOf(r, call)[i].success

IsPrefix(s, t) == Len(s) <= Len(t) /\ SubSeq(t, 1, Len(s)) = s

\* The session keeps its record and its lists only grow in this step
ListsGrow ==
    \A id \in DOMAIN session_store :
        /\ id \in DOMAIN session_store'
        /\ IsPrefix(session_store[id].messages, session_store'[id].messages)
        /\ IsPrefix(session_store[id].steps, session_store'[id].steps)

\* What a run has added to its session's lists when it returns
RunAppends ==
    \A r \in Slots :
        (runs[r].pc = "done" /\ runs[r].sid # 0) =>
           /\ IsPrefix(Before(r).messages, Session(r).messages)
           /\ IsPrefix(Before(r).steps, Session(r).steps)
           /\ (runs[r].groq.kind = "dict" /\ MergedSuccess(runs[r].groq)) =>
                 Len(Session(r).messages) = Len(Before(r).messages) + 1
           /\ ExtractionRaised(r) =>
                 /\ Session(r).messages = Before(r).messages
                 /\ Session(r).steps = Before(r).steps

\* C34: across any sequence of runs against a session, messages and steps
\* only grow: no step shortens or rewrites either list, each list as a run
\* found it is a prefix of the list when the run returns, a run whose
\* extraction succeeded has appended exactly one message entry and a run
\* whose extraction raised has appended none.
C34_ListsOnlyGrow == []RunAppends /\ [][ListsGrow]_vars

\* C34 witness: a second run on a session that already held a turn has
\* returned after a successful extraction, with two turns stored
C34_Witness ==
    \E r \in Slots :
        /\ runs[r].pc = "done"
        /\ runs[r].groq.kind = "dict"
        /\ MergedSuccess(runs[r].groq)
        /\ Len(Before(r).messages) = 1
        /\ Len(Session(r).messages) = 2

\* The run has called the extractor
Extracting(r) == "process_user_message" \in Range(runs[r].calls)

\* The turn a run appends for its own message
OwnTurn(r, assistant) == [user |-> runs[r].msg, assistant |-> assistant]

\* C35: the context passed to the extractor for a message is exactly the
\* min(3, n) most recent turns stored before the message, in order, n being
\* the number of turns the run found stored; the message's own turn is not
\* among them and is the last of messages once the extractor has returned.
C35_ContextIsLastThreeTurns ==
    \A r \in Slots :
        Extracting(r) =>
           LET stored == Before(r).messages
               n == Len(stored)
               k == IF n < 3 THEN n ELSE 3
               context == runs[r].context
           IN /\ Len(context) = k
              /\ \A i \in 1..k : context[i] = stored[n - k + i]
              /\ \A i \in 1..k : context[i].user # runs[r].msg
              /\ runs[r].groq.kind = "dict" =>
                    /\ Len(Session(r).messages) = n + 1
                    /\ Session(r).messages[n + 1] =
                          OwnTurn(r, runs[r].groq.response_message)

\* C35 witness: a run that found four stored turns was given the last three
\* of them and has appended its own turn as the fifth
C35_Witness ==
    \E r \in Slots :
        /\ Extracting(r)
        /\ Len(Before(r).messages) = 4
        /\ Len(runs[r].context) = 3
        /\ runs[r].context[1] = Before(r).messages[2]
        /\ Len(Session(r).messages) = 5

\* The completion is exactly one JSON object that holds the four required
\* fields (and a null extracted_datetime, so that no validation rewrites
\* the result)
StrictObjects ==
    {m \in Members : Required \subseteq Object(m).keys
                     /\ Object(m).extracted_datetime = "null"}

\* C36: for a completion that is already a valid JSON object with the four
\* required fields, the result's field values are the object's values
\* exactly: response_message keeps its text, consecutive spaces included,
\* and the result is not the fallback.
C36_StrictParseKeepsValues ==
    \A m \in StrictObjects :
        (ExtractedFromCompletion /\ raw = <<"LB", m, "RB">>) =>
           /\ ~extracted.raised
           /\ ~extracted.result.fallback
           /\ extracted.result.response_message = Object(m).response_message
           /\ extracted.result.next_state = Object(m).next_state
           /\ extracted.result.needs_more_info = Object(m).needs_more_info

\* The Intent a run received, if process_user_message returned one
ReceivedIntent(r) == runs[r].groq.kind = "dict"

\* The datetime of the run's Intent passed validate_extracted_datetime in the
\* call that returned it
ValidatedInRun(r) ==
    /\ runs[r].requested # NoRequest
    /\ validate_extracted_datetime(runs[r].requested, now).valid
    /\ runs[r].groq.validation_error = ""

\* The position of the first call of a collaborator in a run; 0 if none
FirstCall(r, call) ==
    IF call \in Range(runs[r].calls)
    THEN CHOOSE i \in 1..Len(runs[r].calls) :
            /\ runs[r].calls[i] = call
            /\ \A j \in 1..(i - 1) : runs[r].calls[j] # call
    ELSE 0

\* The availability check and the booking creation are invoked only for a
\* datetime validated in the run, with needs_more_info false, the booking
\* after the check
ChecksOnlyValidated(r) ==
    /\ FirstCall(r, "check_calendly_availability") # 0 =>
          /\ ReceivedIntent(r)
          /\ ValidatedInRun(r)
          /\ ~runs[r].groq.needs_more_info
          /\ FirstCall(r, "process_user_message") # 0
          /\ FirstCall(r, "process_user_message") <
                FirstCall(r, "check_calendly_availability")
    /\ FirstCall(r, "create_calendly_event") # 0 =>
          /\ FirstCall(r, "check_calendly_availability") # 0
          /\ FirstCall(r, "check_calendly_availability") <
                FirstCall(r, "create_calendly_event")

IsCompleted(store, id) ==
    id \in DOMAIN store /\ store[id].conversationState = "completed"

\* The run has created a booking successfully, after an availability check
\* of its own that reported available
BookedAfterAvailable(r) ==
    /\ runs[r].booked
    /\ runs[r].avail = "available"
    /\ FirstCall(r, "check_calendly_availability") # 0
    /\ FirstCall(r, "check_calendly_availability") < FirstCall(r, "create_calendly_event")

\* A step that makes a session completed is the step of a run on that
\* session which has created its booking
CompletedOnlyByBooking ==
    \A id \in SessionIds :
        (IsCompleted(session_store', id) /\ ~IsCompleted(session_store, id)) =>
            \E r \in Slots :
                /\ runs[r].sid = id
                /\ runs[r].pc = "complete"
                /\ BookedAfterAvailable(r)

\* A run that found its session not completed and has it completed has
\* created its booking
CompletedMeansBooked ==
    \A r \in Slots :
        (HasSession(r) /\ IsCompleted(session_store, runs[r].sid)
           /\ Before(r).conversationState # "completed") =>
              BookedAfterAvailable(r)

\* C38: a session whose conversationState is completed has had a booking
\* created successfully in one of its runs, after an availability check of
\* that run that reported available: no session is created completed, and
\* every step that sets completed belongs to such a run.
C38_CompletedOnlyAfterBooking ==
    [](CompletedMeansBooked) /\ [][CompletedOnlyByBooking]_vars

\* C38 witness: a run has returned 'booked' with its session completed
C38_Witness ==
    \E r \in Slots :
        /\ runs[r].pc = "done"
        /\ runs[r].status = "booked"
        /\ BookedAfterAvailable(r)
        /\ IsCompleted(session_store, runs[r].sid)
        /\ Before(r).conversationState # "completed"

\* The run has created its booking and set its session completed (line 176)
BookedAndCompleted(r) ==
    /\ runs[r].booked
    /\ runs[r].pc \in {"handler", "done"}
    /\ "finalize_session_trace" \in Range(runs[r].calls)

\* C39: once a run has created its booking and set conversationState to
\* completed, it sends no error message to the user, also when the metrics
\* logging or the finalization of the trace fails afterwards.
C39_NoErrorAfterBooking ==
    \A r \in Slots :
        BookedAndCompleted(r) => ErrorsSent(r) = <<>>

=============================================================================
